---- MODULE Spec2Model ----
(***************************************************************************)
(* A model of the assessment pipeline of acevalidation: question           *)
(* extraction (agents/extract_agent.py), question-to-standard mapping      *)
(* (agents/mapping_agent.py) and coverage analysis.                        *)
(*                                                                         *)
(* Strings are sequences of one-character strings, so that prefix tests,   *)
(* slicing and regular-expression matching are computed the way the        *)
(* Python code computes them.  A dictionary is a function whose DOMAIN is  *)
(* the set of keys that are present; Get is dict.get.                      *)
(*                                                                         *)
(* The module holds one specification per component:                       *)
(*   SpecClean     MappingAgent._clean_mapping_ids                         *)
(*   SpecCoverage  MappingAgent._analyze_mapping_coverage                  *)
(*   SpecExecute   MappingAgent.execute                                    *)
(*   SpecRepair    MappingAgent._clean_json_response and json.loads        *)
(*   SpecChunk     ExtractAgent._split_by_questions, _group_into_chunks    *)
(*   SpecExtract   ExtractAgent.execute_from_text and                      *)
(*                 ExtractAgent._extract_questions_from_text               *)
(*   SpecChunked   ExtractAgent._process_in_chunks on several chunks       *)
(*   SpecTransport the calls of the external service: _call_ai_api of      *)
(*                 agents/mapping_agent.py and of its second copy,         *)
(*                 _call_llm_api of agents/extract_agent.py                *)
(*   SpecQuality   CollaborativeValidationAgent.analyze_coverage_quality   *)
(*   SpecDegrade   MappingAgent.execute of the second copy of the mapping  *)
(*                 agent, which goes on after a failed Question            *)
(*   SpecFile      ExtractAgent.execute, the extraction from a file        *)
(*   SpecClassify  ExtractAgent._classify_question_type                    *)
(* Each specification keeps the variables of the other components idle.    *)
(***************************************************************************)
EXTENDS Integers, Sequences, FiniteSets, TLC

VARIABLES
    \* ---- MappingAgent._clean_mapping_ids -------------------------------
    mapping_analysis,   \* the dict handed to _clean_mapping_ids: kind -> list of items
    raw_analysis,       \* history: mapping_analysis as it was in the reply
    once_analysis,      \* history: mapping_analysis after the first clean pass
    clean_passes,       \* history: number of _clean_mapping_ids passes applied
    \* ---- MappingAgent._analyze_mapping_coverage -------------------------
    uoc_data,           \* the standard: component lists per kind
    mappings,           \* the Mapping list handed to the analysis
    coverage_analysis,  \* the report of the latest analysis run, or NoReport
    prev_percentage,    \* history: percentage per kind of the run before, or NoReport
    pending,            \* history: what was added to mappings since the latest run
    last_delta          \* history: what the latest run saw added since the run before

\* ---- MappingAgent.execute ---------------------------------------------------
VARIABLES
    api_key,            \* self.api_key is set
    questions,          \* the Questions handed to execute
    exe_pc,             \* "start", "loop", "raised" or "returned"
    q_index,            \* Questions the loop has finished with
    exe_mappings,       \* the local list mappings of execute
    api_response,       \* what the latest external call came back with
    api_log,            \* history: the sleeps and posts of _call_ai_api, in order
    failed_at,          \* history: position of the Question whose mapping failed, or 0
    returned            \* the value execute returned, or NoReport

\* ---- MappingAgent._parse_comprehensive_ai_response_robust -------------------
VARIABLES
    reply_text,         \* the text of the reply handed to the repair stage
    cleaned_response,   \* what _clean_json_response returned
    loaded_data,        \* mapping_data, what json.loads made of it
    repair_pc           \* "received", "cleaned", "loaded" or "no_result"

\* ---- ExtractAgent._process_in_chunks ---------------------------------------
VARIABLES
    chunk_text,         \* the text handed to _process_in_chunks
    chunk_size,         \* the cap on the length of a chunk
    question_groups,    \* what _split_by_questions returned
    chunks,             \* what _group_into_chunks returned
    chunk_pc            \* "start", "split" or "grouped"

\* ---- ExtractAgent.execute_from_text, _extract_questions_from_text ----------
VARIABLES
    input_text,         \* the text handed to the entry point, less its final blanks
    input_pad,          \* the number of blanks that end the text
    extract_key,        \* self.api_key is set
    entry_point,        \* the entry point that is called
    llm_posts,          \* history: what requests.post did, call by call
    extracted,          \* what the entry point returned or raised
    extract_pc          \* "called" or "returned"

\* ---- _call_ai_api (both copies of the mapping agent), _call_llm_api ---------
VARIABLES
    call_site,          \* the function that calls the service
    call_key,           \* self.api_key is set
    call_attempt,       \* the loop variable attempt of the retrying copy
    call_events,        \* history: the sleeps and posts of the call in progress
    call_log,           \* history: the sleeps and posts of all calls, in order
    call_result,        \* what the latest call returned and why, or NoReport
    call_pc,            \* "ready", "retrying" or "returned"
    calls_made          \* history: the number of calls that have returned

\* ---- CollaborativeValidationAgent.analyze_coverage_quality ------------------
VARIABLES
    session_uoc,        \* session_data['uoc_data']
    session_mappings,   \* session_data['mappings']
    quality_report,     \* what analyze_coverage_quality returned, or NoReport
    quality_pc          \* "called" or "returned"

varsClean == <<mapping_analysis, raw_analysis, once_analysis, clean_passes>>

varsCoverage == <<uoc_data, mappings, coverage_analysis, prev_percentage,
                  pending, last_delta>>

varsExecute == <<api_key, questions, exe_pc, q_index, exe_mappings,
                 api_response, api_log, failed_at, returned>>

varsRepair == <<reply_text, cleaned_response, loaded_data, repair_pc>>

varsChunk == <<chunk_text, chunk_size, question_groups, chunks, chunk_pc>>

varsExtract == <<input_text, input_pad, extract_key, entry_point, llm_posts,
                 extracted, extract_pc>>

varsTransport == <<call_site, call_key, call_attempt, call_events, call_log,
                   call_result, call_pc, calls_made>>

varsQuality == <<session_uoc, session_mappings, quality_report, quality_pc>>

\* the components added to the six above
varsMore == <<varsTransport, varsQuality>>

vars == <<varsClean, varsCoverage, varsExecute, varsRepair, varsChunk,
          varsExtract, varsMore>>

None == "None"

\* the value of a report variable before any report was made
NoReport == <<>>

\* no external call was made yet
NoResponse == [status |-> "none", clean |-> "none", data |-> <<>>]

\* nothing was added to the Mapping set since the latest analysis
NoDelta == [count |-> 0, kind |-> "none", fresh |-> FALSE]

\* ---- a component that takes no part in a specification stays idle ----------
IdleClean ==
    /\ mapping_analysis = None
    /\ raw_analysis = None
    /\ once_analysis = None
    /\ clean_passes = 0

IdleCoverage ==
    /\ uoc_data = None
    /\ mappings = <<>>
    /\ coverage_analysis = NoReport
    /\ prev_percentage = NoReport
    /\ pending = NoDelta
    /\ last_delta = NoDelta

IdleExecute ==
    /\ api_key = FALSE
    /\ questions = <<>>
    /\ exe_pc = "idle"
    /\ q_index = 0
    /\ exe_mappings = <<>>
    /\ api_response = NoResponse
    /\ api_log = <<>>
    /\ failed_at = 0
    /\ returned = NoReport

IdleRepair ==
    /\ reply_text = <<>>
    /\ cleaned_response = [found |-> FALSE, text |-> <<>>]
    /\ loaded_data = [ok |-> FALSE, value |-> <<>>]
    /\ repair_pc = "idle"

IdleChunk ==
    /\ chunk_text = <<>>
    /\ chunk_size = 0
    /\ question_groups = <<>>
    /\ chunks = <<>>
    /\ chunk_pc = "idle"

IdleExtract ==
    /\ input_text = <<>>
    /\ input_pad = 0
    /\ extract_key = FALSE
    /\ entry_point = "none"
    /\ llm_posts = <<>>
    /\ extracted = [raised |-> FALSE, kind |-> "", value |-> <<>>]
    /\ extract_pc = "idle"

IdleTransport ==
    /\ call_site = "none"
    /\ call_key = FALSE
    /\ call_attempt = 0
    /\ call_events = <<>>
    /\ call_log = <<>>
    /\ call_result = NoReport
    /\ call_pc = "idle"
    /\ calls_made = 0

IdleQuality ==
    /\ session_uoc = None
    /\ session_mappings = <<>>
    /\ quality_report = NoReport
    /\ quality_pc = "idle"

IdleMore == IdleTransport /\ IdleQuality

IdleOutsideClean ==
    IdleCoverage /\ IdleExecute /\ IdleRepair /\ IdleChunk /\ IdleExtract /\ IdleMore
IdleOutsideCoverage ==
    IdleClean /\ IdleExecute /\ IdleRepair /\ IdleChunk /\ IdleExtract /\ IdleMore
IdleOutsideExecute ==
    IdleClean /\ IdleCoverage /\ IdleRepair /\ IdleChunk /\ IdleExtract /\ IdleMore
IdleOutsideRepair ==
    IdleClean /\ IdleCoverage /\ IdleExecute /\ IdleChunk /\ IdleExtract /\ IdleMore
IdleOutsideChunk ==
    IdleClean /\ IdleCoverage /\ IdleExecute /\ IdleRepair /\ IdleExtract /\ IdleMore
IdleOutsideExtract ==
    IdleClean /\ IdleCoverage /\ IdleExecute /\ IdleRepair /\ IdleChunk /\ IdleMore
IdleOutsideSix ==
    IdleClean /\ IdleCoverage /\ IdleExecute /\ IdleRepair /\ IdleChunk /\ IdleExtract
IdleOutsideTransport == IdleOutsideSix /\ IdleQuality
IdleOutsideQuality == IdleOutsideSix /\ IdleTransport

\* what the steps of one component leave alone
varsOutsideClean ==
    <<varsCoverage, varsExecute, varsRepair, varsChunk, varsExtract, varsMore>>
varsOutsideCoverage ==
    <<varsClean, varsExecute, varsRepair, varsChunk, varsExtract, varsMore>>
varsOutsideExecute ==
    <<varsClean, varsCoverage, varsRepair, varsChunk, varsExtract, varsMore>>
varsOutsideRepair ==
    <<varsClean, varsCoverage, varsExecute, varsChunk, varsExtract, varsMore>>
varsOutsideChunk ==
    <<varsClean, varsCoverage, varsExecute, varsRepair, varsExtract, varsMore>>
varsOutsideExtract ==
    <<varsClean, varsCoverage, varsExecute, varsRepair, varsChunk, varsMore>>
varsOutsideTransport ==
    <<varsClean, varsCoverage, varsExecute, varsRepair, varsChunk, varsExtract,
      varsQuality>>
varsOutsideQuality ==
    <<varsClean, varsCoverage, varsExecute, varsRepair, varsChunk, varsExtract,
      varsTransport>>

(***************************************************************************)
(* Python helpers                                                          *)
(***************************************************************************)

\* dict.get(key, default)
Get(d, key, default) == IF key \in DOMAIN d THEN d[key] ELSE default

\* F of the value of v, v computed once
With(v, F(_)) == CHOOSE r \in {F(x) : x \in {v}} : TRUE

\* str.startswith(prefix)
StartsWith(s, prefix) ==
    /\ Len(s) >= Len(prefix)
    /\ SubSeq(s, 1, Len(prefix)) = prefix

\* s[n:]
DropFirst(s, n) == SubSeq(s, n + 1, Len(s))

\* char.isdigit()
IsDigit(c) == c \in {"0", "1", "2", "3", "4", "5", "6", "7", "8", "9"}

\* any(char.isdigit() for char in s[n:])
AnyDigitAfter(s, n) == \E i \in (n + 1)..Len(s) : IsDigit(s[i])

\* all strings over alphabet of length 0..n
RECURSIVE StringsUpTo(_, _)
StringsUpTo(alphabet, n) ==
    IF n = 0 THEN {<<>>}
    ELSE LET shorter == StringsUpTo(alphabet, n - 1)
         IN  shorter \cup {Append(s, c) : s \in shorter, c \in alphabet}

(***************************************************************************)
(* MappingAgent._clean_mapping_ids                                         *)
(***************************************************************************)

Kinds == {"mapped_elements", "mapped_performance_criteria",
          "mapped_performance_evidence", "mapped_knowledge_evidence"}

\* the canonical prefix each list is cleaned to
PrefixOf(kind) ==
    CASE kind = "mapped_elements"             -> <<"E">>
      [] kind = "mapped_performance_criteria" -> <<"P", "C">>
      [] kind = "mapped_performance_evidence" -> <<"P", "E">>
      [] kind = "mapped_knowledge_evidence"   -> <<"K", "E">>

\* the id fields _clean_mapping_ids rewrites in the items of each list
IdFieldsOf(kind) ==
    CASE kind = "mapped_elements"             -> {"element_id"}
      [] kind = "mapped_performance_criteria" -> {"criterion_id"}
      [] kind = "mapped_performance_evidence" -> {"evidence_id"}
      [] kind = "mapped_knowledge_evidence"   -> {"evidence_id", "knowledge_id"}

\* the *_code twin written next to each cleaned id
CodeFieldOf(field) ==
    CASE field = "element_id"   -> "element_code"
      [] field = "criterion_id" -> "criterion_code"
      [] field = "evidence_id"  -> "evidence_code"
      [] field = "knowledge_id" -> "knowledge_code"

\* a plausible slip: the duplicated prefix is removed once (if) instead of
\* repeatedly (while)
StripDuplicatedPrefixOnce(id, prefix) ==
    IF StartsWith(id, prefix \o prefix) THEN DropFirst(id, Len(prefix)) ELSE id

\* while id.startswith(prefix + prefix): id = id[len(prefix):]
RECURSIVE StripDuplicatedPrefix(_, _)
StripDuplicatedPrefix(id, prefix) ==
    IF StartsWith(id, prefix \o prefix)
    THEN StripDuplicatedPrefix(DropFirst(id, Len(prefix)), prefix)
    ELSE id

\* if not id.startswith(prefix): id = prefix + id
EnsurePrefix(id, prefix) == IF StartsWith(id, prefix) THEN id ELSE prefix \o id

\* if not any(char.isdigit() for char in id[len(prefix):]): id = id + "1"
EnsureNumber(id, prefix) ==
    IF AnyDigitAfter(id, Len(prefix)) THEN id ELSE Append(id, "1")

\* the fix-up applied to one id of one kind; an empty id is left alone
CleanId(id, prefix) ==
    IF id = <<>> THEN id
    ELSE EnsureNumber(EnsurePrefix(StripDuplicatedPrefix(id, prefix), prefix), prefix)

\* one item after the pass: each id field that is present and non-empty is
\* rewritten and copied to its *_code twin
CleanItem(item, kind) ==
    LET fields  == {f \in IdFieldsOf(kind) : f \in DOMAIN item /\ item[f] # <<>>}
        codes   == {CodeFieldOf(f) : f \in fields}
        source(c) == CHOOSE f \in fields : CodeFieldOf(f) = c
    IN  [k \in DOMAIN item \cup codes |->
            IF k \in fields THEN CleanId(item[k], PrefixOf(kind))
            ELSE IF k \in codes THEN CleanId(item[source(k)], PrefixOf(kind))
            ELSE item[k]]

\* _clean_mapping_ids(mapping_analysis): every list present is cleaned in place
CleanMappingIdsOf(analysis) ==
    [kind \in DOMAIN analysis |->
        [i \in 1..Len(analysis[kind]) |-> CleanItem(analysis[kind][i], kind)]]

\* the canonical grammar of the data model: E<n>, PC<n>.<m>, PE<n>, KE<n>
AllDigits(s) == Len(s) > 0 /\ \A i \in 1..Len(s) : IsDigit(s[i])

IsCanonical(id, kind) ==
    LET prefix == PrefixOf(kind)
        rest   == DropFirst(id, Len(prefix))
    IN  /\ StartsWith(id, prefix)
        /\ IF kind = "mapped_performance_criteria"
           THEN \E d \in 2..(Len(rest) - 1) :
                    /\ rest[d] = "."
                    /\ AllDigits(SubSeq(rest, 1, d - 1))
                    /\ AllDigits(SubSeq(rest, d + 1, Len(rest)))
           ELSE AllDigits(rest)

\* ---- inputs --------------------------------------------------------------
MaxIdLen == 3

IdAlphabet == {"E", "P", "C", "K", "1", "."}

\* the ids named by the specification, beside every short string
NamedIds == {<<"P", "C", "P", "C", "1", ".", "1">>, <<"1", ".", "1">>,
             <<"P", "C", "1", ".", "1">>, <<"P", "C", "1", "2", ".", "1">>,
             <<"E", "E", "E", "1">>, <<"K", "E", "K", "E", "K", "E">>,
             <<"P", "E", "P", "E", "1">>, <<"E", "1">>, <<"P", "E", "1">>,
             <<"K", "E", "1">>}

IdInputs == StringsUpTo(IdAlphabet, MaxIdLen) \cup NamedIds

\* one item of a reply: its id field(s) present or absent
ItemInputs(kind) ==
    LET f == CHOOSE x \in IdFieldsOf(kind) : x # "knowledge_id"
    IN  {[x \in {f} |-> id] : id \in IdInputs}
        \cup (IF kind = "mapped_knowledge_evidence"
              THEN {[x \in {"knowledge_id"} |-> id] : id \in NamedIds}
              ELSE {})
        \cup {[x \in {"confidence_score"} |-> 1]}

InitClean ==
    /\ IdleOutsideClean
    /\ \E kind \in Kinds : \E item \in ItemInputs(kind) :
          mapping_analysis = [k \in Kinds |-> IF k = kind THEN <<item>> ELSE <<>>]
    /\ raw_analysis = mapping_analysis
    /\ once_analysis = None
    /\ clean_passes = 0

\* self._clean_mapping_ids(mapping_analysis); a mapping that is normalized again
\* (re-mapping, a second pass over stored data) gets the same pass once more
CleanMappingIds ==
    /\ clean_passes < 2
    /\ mapping_analysis' = CleanMappingIdsOf(mapping_analysis)
    /\ once_analysis' = IF clean_passes = 0 THEN mapping_analysis' ELSE once_analysis
    /\ clean_passes' = clean_passes + 1
    /\ UNCHANGED <<raw_analysis, varsOutsideClean>>

NextClean == CleanMappingIds

(***************************************************************************)
(* MappingAgent._analyze_mapping_coverage                                  *)
(***************************************************************************)

\* the key of uoc_data that holds the components of a kind
UocKeyOf(kind) ==
    CASE kind = "mapped_elements"             -> "elements"
      [] kind = "mapped_performance_criteria" -> "performance_criteria"
      [] kind = "mapped_performance_evidence" -> "performance_evidence"
      [] kind = "mapped_knowledge_evidence"   -> "knowledge_evidence"

\* the key of the report that holds the coverage of a kind
CoverageKeyOf(kind) ==
    CASE kind = "mapped_elements"             -> "elements_coverage"
      [] kind = "mapped_performance_criteria" -> "performance_criteria_coverage"
      [] kind = "mapped_performance_evidence" -> "performance_evidence_coverage"
      [] kind = "mapped_knowledge_evidence"   -> "knowledge_evidence_coverage"

\* the item field the analysis collects for a kind
MappedIdFieldOf(kind) ==
    CASE kind = "mapped_elements"             -> "element_id"
      [] kind = "mapped_performance_criteria" -> "criterion_id"
      [] kind = "mapped_performance_evidence" -> "evidence_id"
      [] kind = "mapped_knowledge_evidence"   -> "evidence_id"

\* the component field the standard stores the code of a kind in: fetch_agent
\* and app.py build elements as {'id', 'description'} and the other kinds as
\* {'code', 'description'}
ComponentIdFieldOf(kind) == IF kind = "mapped_elements" THEN "id" ELSE "code"

\* the id_field _analyze_mapping_coverage passes to
\* _identify_unmapped_components for a kind
UnmappedIdFieldOf(kind) == IF kind = "mapped_elements" THEN "element_id" ELSE "code"

\* the set(...) of ids collected over all mappings; an item without the id
\* field contributes ''
MappedSetOf(ms, kind) ==
    {Get(Get(Get(ms[m], "mapping_analysis", <<>>), kind, <<>>)[i],
         MappedIdFieldOf(kind), <<>>) :
        <<m, i>> \in {<<m, i>> \in (1..Len(ms)) \X (1..Len(ms) + 8) :
            i <= Len(Get(Get(ms[m], "mapping_analysis", <<>>), kind, <<>>))}}

\* 100 percent in the unit of round(..., 1): tenths of a percent
FullCoverage == 1000

\* round(x, 1) of x = num / den * 100, as a whole number of tenths.  A tie is
\* sent to the even neighbour; Python decides a tie by the binary value of the
\* float, and no tie arises for the totals of this model
RoundTenths(num, den) ==
    LET q == (num * FullCoverage) \div den
        r == (num * FullCoverage) % den
    IN  IF 2 * r > den THEN q + 1
        ELSE IF 2 * r < den THEN q
        ELSE IF q % 2 = 0 THEN q ELSE q + 1

\* a plausible slip: floor division before scaling, mapped // total * 100
PercentageFloorDiv(mapped, total) ==
    IF total > 0 THEN (mapped \div total) * FullCoverage ELSE 0

\* round((mapped / total * 100), 1) if total > 0 else 0, in tenths of a percent
Percentage(mapped, total) ==
    IF total > 0 THEN RoundTenths(mapped, total) ELSE 0

\* _identify_unmapped_components(components, mapped_set, id_field); the
\* priority and suggested_questions of an entry depend on its description alone
IdentifyUnmappedComponents(components, mapped_set, id_field) ==
    LET kept == {i \in 1..Len(components) :
                    /\ Get(components[i], id_field, <<>>) # <<>>
                    /\ Get(components[i], id_field, <<>>) \notin mapped_set}
        \* the j-th kept component, in the order of the list
        Nth(j) == CHOOSE i \in kept : Cardinality({k \in kept : k <= i}) = j
    IN  [j \in 1..Cardinality(kept) |->
            [id |-> Get(components[Nth(j)], id_field, <<>>),
             description |-> Get(components[Nth(j)], "description", <<>>)]]

\* the coverage entries of the report _analyze_mapping_coverage returns
AnalyzeMappingCoverage(ms, uoc) ==
    [key \in {CoverageKeyOf(kind) : kind \in Kinds} |->
        LET kind       == CHOOSE k \in Kinds : CoverageKeyOf(k) = key
            components == Get(uoc, UocKeyOf(kind), <<>>)
            mapped_set == MappedSetOf(ms, kind)
        IN  [mapped     |-> Cardinality(mapped_set),
             total      |-> Len(components),
             percentage |-> Percentage(Cardinality(mapped_set), Len(components)),
             unmapped   |-> IdentifyUnmappedComponents(components, mapped_set,
                                                       UnmappedIdFieldOf(kind))]]

\* ---- inputs --------------------------------------------------------------
MaxComponents == 3
MaxItems == 2

LargeStandard == 1500

DigitChars == <<"0", "1", "2", "3", "4", "5", "6", "7", "8", "9">>

\* str(n)
RECURSIVE Decimal(_)
Decimal(n) ==
    IF n < 10 THEN <<DigitChars[n + 1]>>
    ELSE Append(Decimal(n \div 10), DigitChars[(n % 10) + 1])

\* the canonical code of the i-th component of a kind: Ei, PC1.i, PEi, KEi
StandardCode(kind, i) ==
    IF kind = "mapped_performance_criteria"
    THEN <<"P", "C", "1", ".">> \o Decimal(i)
    ELSE PrefixOf(kind) \o Decimal(i)

\* a standard with n_elements Elements and n_other components of every other
\* kind, as fetch_agent delivers it
StandardOf(n_elements, n_other) ==
    [key \in {UocKeyOf(kind) : kind \in Kinds} |->
        LET kind == CHOOSE k \in Kinds : UocKeyOf(k) = key
            n    == IF kind = "mapped_elements" THEN n_elements ELSE n_other
        IN  [i \in 1..n |->
                [f \in {ComponentIdFieldOf(kind), "description"} |->
                    IF f = "description" THEN <<"d">> ELSE StandardCode(kind, i)]]]

StandardCodes(uoc, kind) ==
    {uoc[UocKeyOf(kind)][i][ComponentIdFieldOf(kind)] :
        i \in 1..Len(uoc[UocKeyOf(kind)])}

\* the codes of the first components of a kind
FirstCodes(uoc, kind) ==
    {uoc[UocKeyOf(kind)][i][ComponentIdFieldOf(kind)] :
        i \in {j \in 1..MaxComponents : j <= Len(uoc[UocKeyOf(kind)])}}

\* a code no component of the standard carries
ForeignCode(kind) == PrefixOf(kind) \o <<"0">>

\* the items a Mapping can gain: one naming a component of the standard, one
\* naming a code the standard lacks, one without an id
NewItems(uoc, kind) ==
    {[f \in {MappedIdFieldOf(kind)} |-> code] :
        code \in FirstCodes(uoc, kind) \cup {ForeignCode(kind)}}
    \cup {[f \in {"confidence_score"} |-> 1]}

TotalItems(ms) ==
    LET RECURSIVE Count(_)
        Count(s) == IF s = <<>> THEN 0
                    ELSE LET a == Head(s)["mapping_analysis"]
                         IN  Len(a["mapped_elements"])
                             + Len(a["mapped_performance_criteria"])
                             + Len(a["mapped_performance_evidence"])
                             + Len(a["mapped_knowledge_evidence"])
                             + Count(Tail(s))
    IN  Count(ms)

EmptyMapping == [mapping_analysis |-> [k \in Kinds |-> <<>>]]

InitCoverage ==
    /\ IdleOutsideCoverage
    /\ \/ \E n \in 0..MaxComponents : uoc_data = StandardOf(n, n)
       \/ uoc_data = StandardOf(LargeStandard, 0)
    /\ mappings = <<>>
    /\ coverage_analysis = NoReport
    /\ prev_percentage = NoReport
    /\ pending = NoDelta
    /\ last_delta = NoDelta

\* the Mapping set gains one item: in the Mapping of a question already mapped,
\* or in the Mapping of one more question
AddMappedItem ==
    /\ TotalItems(mappings) < MaxItems
    /\ \E m \in 1..(Len(mappings) + 1) : \E kind \in Kinds :
       \E item \in NewItems(uoc_data, kind) :
          LET old   == IF m <= Len(mappings) THEN mappings[m] ELSE EmptyMapping
              new   == [old EXCEPT !["mapping_analysis"][kind] = Append(@, item)]
              fresh == /\ MappedIdFieldOf(kind) \in DOMAIN item
                       /\ item[MappedIdFieldOf(kind)] \in StandardCodes(uoc_data, kind)
                       /\ item[MappedIdFieldOf(kind)] \notin MappedSetOf(mappings, kind)
          IN  /\ mappings' = IF m <= Len(mappings)
                             THEN [mappings EXCEPT ![m] = new]
                             ELSE Append(mappings, new)
              /\ pending' = IF pending.count = 0
                            THEN [count |-> 1, kind |-> kind, fresh |-> fresh]
                            ELSE [count |-> 2, kind |-> "several", fresh |-> FALSE]
    /\ UNCHANGED <<uoc_data, coverage_analysis, prev_percentage, last_delta>>
    /\ UNCHANGED varsOutsideCoverage

\* mapping_analysis = self._analyze_mapping_coverage(mappings, uoc_data)
AnalyzeCoverage ==
    /\ coverage_analysis = NoReport \/ pending.count > 0
    /\ coverage_analysis' = AnalyzeMappingCoverage(mappings, uoc_data)
    /\ prev_percentage' =
          IF coverage_analysis = NoReport THEN NoReport
          ELSE [kind \in Kinds |-> coverage_analysis[CoverageKeyOf(kind)].percentage]
    /\ last_delta' = pending
    /\ pending' = NoDelta
    /\ UNCHANGED <<uoc_data, mappings, varsOutsideCoverage>>

NextCoverage == AddMappedItem \/ AnalyzeCoverage

(***************************************************************************)
(* MappingAgent.execute, the fail-fast batch                               *)
(***************************************************************************)

\* what _map_single_question_comprehensive returns when it has no Mapping
NoMapping == <<>>

\* a value of the reply that is not a list (a non-empty string), written as a
\* marker that compares unequal to every list of items
NotAList == <<[json_type |-> "string"]>>

\* the description field _filter_empty_mappings looks at in the items of a list
DescriptionFieldOf(kind) ==
    CASE kind = "mapped_elements"             -> "element_description"
      [] kind = "mapped_performance_criteria" -> "criterion_description"
      [] kind = "mapped_performance_evidence" -> "evidence_description"
      [] kind = "mapped_knowledge_evidence"   -> "evidence_description"

\* the order in which the four lists are walked
KindOrder == <<"mapped_elements", "mapped_performance_criteria",
               "mapped_performance_evidence", "mapped_knowledge_evidence">>

RECURSIVE SumSeq(_)
SumSeq(s) == IF s = <<>> THEN 0 ELSE Head(s) + SumSeq(Tail(s))

\* round(num / den) to the nearest whole, a tie to the even neighbour
RoundDiv(num, den) ==
    LET q == num \div den
        r == num % den
    IN  IF 2 * r > den THEN q + 1
        ELSE IF 2 * r < den THEN q
        ELSE IF q % 2 = 0 THEN q ELSE q + 1

\* _validate_basic_mapping_structure(mapping_data)
ValidateBasicMappingStructure(mapping_data) ==
    /\ "question_id" \in DOMAIN mapping_data
    /\ "mapping_analysis" \in DOMAIN mapping_data
    /\ \A field \in {"mapped_elements", "mapped_performance_criteria"} :
          /\ field \in DOMAIN mapping_data["mapping_analysis"]
          /\ mapping_data["mapping_analysis"][field] # NotAList

\* _calculate_mapping_statistics(mapping_analysis); a confidence_score is a
\* whole number of thousandths and so is average_confidence, round(..., 3)
CalculateMappingStatistics(analysis) ==
    LET items(k)  == Get(analysis, KindOrder[k], <<>>)
        counts    == [k \in 1..Len(KindOrder) |-> Len(items(k))]
        scores    == [k \in 1..Len(KindOrder) |->
                         SumSeq([i \in 1..Len(items(k)) |->
                                    Get(items(k)[i], "confidence_score", 0)])]
        total_mappings   == SumSeq(counts)
        total_confidence == SumSeq(scores)
    IN  [total_mappings     |-> total_mappings,
         average_confidence |-> IF total_mappings > 0
                                THEN RoundDiv(total_confidence, total_mappings)
                                ELSE 0]

\* _filter_empty_mappings: an item stays if it has an id and a description
FilterEmptyMappings(analysis) ==
    [kind \in DOMAIN analysis |->
        LET Keep(item) == /\ Get(item, MappedIdFieldOf(kind), <<>>) # <<>>
                          /\ Get(item, DescriptionFieldOf(kind), <<>>) # <<>>
        IN  SelectSeq(analysis[kind], Keep)]

\* _ensure_complete_mapping_structure(mapping_data, question, uoc_data): the
\* four lists are defaulted, the ids cleaned, the statistics computed and the
\* empty items filtered, in this order
EnsureCompleteMappingStructure(mapping_data, question) ==
    LET analysis == [kind \in Kinds |->
                        Get(mapping_data["mapping_analysis"], kind, <<>>)]
        cleaned  == CleanMappingIdsOf(analysis)
    IN  [question_id        |-> mapping_data["question_id"],
         question_text      |-> Get(mapping_data, "question_text", question.text),
         mapping_analysis   |-> FilterEmptyMappings(cleaned),
         mapping_statistics |-> CalculateMappingStatistics(cleaned),
         mapping_source     |-> "ai"]

\* _parse_comprehensive_ai_response_robust(response, question, uoc_data):
\* reply.clean tells how _clean_json_response and json.loads ended, reply.data
\* is the parsed object; an exception of a later step is caught here
ParseComprehensiveAiResponseRobust(reply, question) ==
    IF reply.clean # "object" THEN NoMapping
    ELSE IF ~ValidateBasicMappingStructure(reply.data) THEN NoMapping
    ELSE IF \E kind \in Kinds :
               Get(reply.data["mapping_analysis"], kind, <<>>) = NotAList
         THEN NoMapping
    ELSE EnsureCompleteMappingStructure(reply.data, question)

\* _map_single_question_comprehensive, given what _call_ai_api came back with
MapSingleQuestionComprehensive(reply, question) ==
    IF reply.status # "text" THEN NoMapping
    ELSE ParseComprehensiveAiResponseRobust(reply, question)

\* _call_ai_api(prompt): the rate-limit sleep, then one post
CallAiApi(question) ==
    <<[event |-> "sleep", question |-> question.id],
      [event |-> "post", question |-> question.id]>>

\* a plausible slip: a failed Question is skipped and the batch goes on
LoopStepSkip(mapping, ms) ==
    IF mapping = NoMapping
    THEN [pc |-> "loop", mappings |-> ms]
    ELSE [pc |-> "loop", mappings |-> Append(ms, mapping)]

\* a loop that puts each new mapping in front of the earlier ones
LoopStepPrepend(mapping, ms) ==
    IF mapping = NoMapping
    THEN [pc |-> "raised", mappings |-> ms]
    ELSE [pc |-> "loop", mappings |-> <<mapping>> \o ms]

\* the body of the loop after the call: if not mapping: raise RuntimeError;
\* mapping['mapping_source'] = 'ai'; mappings.append(mapping)
LoopStep(mapping, ms) ==
    IF mapping = NoMapping
    THEN [pc |-> "raised", mappings |-> ms]
    ELSE [pc |-> "loop", mappings |-> Append(ms, mapping)]

\* ---- inputs --------------------------------------------------------------
MaxQuestions == 3

QuestionOf(i) == [id |-> <<"Q">> \o Decimal(i), text |-> <<"t">> \o Decimal(i)]

QuestionInputs == {[i \in 1..n |-> QuestionOf(i)] : n \in 0..MaxQuestions}

\* a question id no input Question carries
ForeignQuestionId == <<"Q", "0">>

ElementItem ==
    [element_id |-> <<"E", "1">>, element_description |-> <<"d">>,
     confidence_score |-> 900]

\* a criterion item without a description
BareCriterionItem == [criterion_id |-> <<"1", ".", "1">>, confidence_score |-> 500]

\* mapping_analysis objects of a reply: two lists; four lists; without
\* mapped_elements; with a list that is not a list
AnalysisInputs ==
    {[mapped_elements |-> <<ElementItem>>, mapped_performance_criteria |-> <<>>],
     [mapped_elements |-> <<ElementItem>>,
      mapped_performance_criteria |-> <<BareCriterionItem>>,
      mapped_performance_evidence |-> <<>>, mapped_knowledge_evidence |-> <<>>],
     [mapped_performance_criteria |-> <<>>],
     [mapped_elements |-> NotAList, mapped_performance_criteria |-> <<>>],
     [mapped_elements |-> <<>>, mapped_performance_criteria |-> <<>>,
      mapped_performance_evidence |-> NotAList]}

\* the objects a reply can parse to
DataInputs(question) ==
    {[question_id |-> qid, mapping_analysis |-> a] :
        qid \in {question.id, ForeignQuestionId}, a \in AnalysisInputs}
    \cup {[mapping_analysis |-> a] : a \in AnalysisInputs}
    \cup {[question_id |-> question.id]}

\* what one external call can come back with: a transport error, a reply
\* without text, text that cannot be repaired, text that does not parse after
\* the repair, text that parses to an object
ReplyInputs(question) ==
    {[status |-> "error", clean |-> "none", data |-> <<>>],
     [status |-> "no_text", clean |-> "none", data |-> <<>>],
     [status |-> "text", clean |-> "none", data |-> <<>>],
     [status |-> "text", clean |-> "invalid_json", data |-> <<>>]}
    \cup {[status |-> "text", clean |-> "object", data |-> d] :
             d \in DataInputs(question)}

\* the standard the batch is mapped against
ExecuteStandard == StandardOf(1, 1)

InitExecute ==
    /\ IdleOutsideExecute
    /\ api_key \in BOOLEAN
    /\ questions \in QuestionInputs
    /\ exe_pc = "start"
    /\ q_index = 0
    /\ exe_mappings = <<>>
    /\ api_response = NoResponse
    /\ api_log = <<>>
    /\ failed_at = 0
    /\ returned = NoReport

\* if not self.api_key: raise RuntimeError; mappings = []
ExecuteBegin ==
    /\ exe_pc = "start"
    /\ exe_pc' = IF api_key THEN "loop" ELSE "raised"
    /\ UNCHANGED <<api_key, questions, q_index, exe_mappings, api_response,
                   api_log, failed_at, returned, varsOutsideExecute>>

\* one turn of the loop over the Questions: the external call, the parsing of
\* its reply, and the append or the raise
MapQuestion ==
    /\ exe_pc = "loop"
    /\ q_index < Len(questions)
    /\ \E reply \in ReplyInputs(questions[q_index + 1]) :
          LET question == questions[q_index + 1]
              mapping  == MapSingleQuestionComprehensive(reply, question)
              step     == LoopStep(mapping, exe_mappings)
          IN  /\ api_log' = api_log \o CallAiApi(question)
              /\ api_response' = reply
              /\ exe_pc' = step.pc
              /\ exe_mappings' = step.mappings
              /\ q_index' = q_index + 1
              /\ failed_at' = IF mapping = NoMapping THEN q_index + 1 ELSE failed_at
    /\ UNCHANGED <<api_key, questions, returned, varsOutsideExecute>>

\* after the loop: the coverage analysis, then the return
ExecuteReturn ==
    /\ exe_pc = "loop"
    /\ q_index = Len(questions)
    /\ returned' = [mappings        |-> exe_mappings,
                    analysis        |-> AnalyzeMappingCoverage(exe_mappings,
                                                               ExecuteStandard),
                    total_questions |-> Len(questions)]
    /\ exe_pc' = "returned"
    /\ UNCHANGED <<api_key, questions, q_index, exe_mappings, api_response,
                   api_log, failed_at, varsOutsideExecute>>

NextExecute == ExecuteBegin \/ MapQuestion \/ ExecuteReturn

(***************************************************************************)
(* The MappingAgent variant that does not abort (the second copy of        *)
(* mapping_agent.py): execute, on the variables of execute                 *)
(***************************************************************************)

\* max_retries and base_delay (seconds) of the second copy of the mapping agent
MaxRetries == 3
BaseDelay == 1

\* the fields _validate_comprehensive_mapping_data requires of overall_assessment
AssessmentFields ==
    {"mapping_quality", "coverage_analysis", "asqa_compliance_level",
     "audit_readiness"}

\* _validate_comprehensive_mapping_data(mapping_data)
ValidateComprehensiveMappingData(mapping_data) ==
    /\ {"question_id", "mapping_analysis", "overall_assessment"}
           \subseteq DOMAIN mapping_data
    /\ \A kind \in Kinds :
           /\ kind \in DOMAIN mapping_data["mapping_analysis"]
           /\ mapping_data["mapping_analysis"][kind] # NotAList
    /\ AssessmentFields \subseteq DOMAIN mapping_data["overall_assessment"]

\* _enhance_mapping_with_analysis: the reply's object with the metadata of the
\* Question and the context of the standard added; the id stays the reply's
DegradeEnhanceMapping(mapping_data, question, uoc) ==
    [question_id        |-> mapping_data["question_id"],
     mapping_analysis   |-> mapping_data["mapping_analysis"],
     overall_assessment |-> mapping_data["overall_assessment"],
     question_metadata  |-> [question_number |-> Get(question, "number", <<>>)],
     uoc_context        |-> [total_elements |-> Len(Get(uoc, "elements", <<>>))]]

\* _parse_comprehensive_ai_response(response, question, uoc_data): reply.parse
\* tells whether braces were found and json.loads succeeded
DegradeParseResponse(reply, question, uoc) ==
    IF reply.parse # "object" THEN NoMapping
    ELSE IF ~ValidateComprehensiveMappingData(reply.data) THEN NoMapping
    ELSE DegradeEnhanceMapping(reply.data, question, uoc)

\* _map_single_question_comprehensive: None when the call came back with
\* nothing or the reply did not parse
DegradeMapSingleQuestion(reply, question, uoc) ==
    IF reply.status # "text" THEN NoMapping
    ELSE DegradeParseResponse(reply, question, uoc)

\* _call_ai_api of the variant, posts attempts in all: before every post the
\* rate-limit sleep, after every post but the last the backoff sleep
RECURSIVE DegradeCallAiApi(_, _, _)
DegradeCallAiApi(question, attempt, posts) ==
    IF attempt >= posts THEN <<>>
    ELSE <<[event |-> "sleep", question |-> question.id],
           [event |-> "post", question |-> question.id]>>
         \o (IF attempt < posts - 1
             THEN <<[event |-> "backoff", question |-> question.id]>>
             ELSE <<>>)
         \o DegradeCallAiApi(question, attempt + 1, posts)

\* the confidence the placeholder gives to the item of a kind, in thousandths
MockConfidence(kind) ==
    CASE kind = "mapped_elements"             -> 950
      [] kind = "mapped_performance_criteria" -> 900
      [] kind = "mapped_performance_evidence" -> 850
      [] kind = "mapped_knowledge_evidence"   -> 800

\* the placeholder Mapping of one Question in _generate_enhanced_mock_mappings:
\* the first component of every kind the standard has
MockMapping(question, uoc) ==
    [question_id      |-> Get(question, "id", <<"0">>),
     question_text    |-> Get(question, "text", <<>>),
     mapping_analysis |->
         [kind \in Kinds |->
             LET components == Get(uoc, UocKeyOf(kind), <<>>)
             IN  IF components = <<>> THEN <<>>
                 ELSE <<[f \in {MappedIdFieldOf(kind), DescriptionFieldOf(kind),
                                "confidence_score"} |->
                           IF f = "confidence_score" THEN MockConfidence(kind)
                           ELSE IF f = MappedIdFieldOf(kind)
                           THEN Get(components[1], ComponentIdFieldOf(kind),
                                    StandardCode(kind, 1))
                           ELSE Get(components[1], "description", <<>>)]>>]]

\* _analyze_mapping_coverage of the variant, for a standard given as four lists
DegradeAnalyzeMappingCoverage(ms, uoc) ==
    [key \in {CoverageKeyOf(kind) : kind \in Kinds} |->
        LET kind   == CHOOSE k \in Kinds : CoverageKeyOf(k) = key
            total  == Len(Get(uoc, UocKeyOf(kind), <<>>))
            mapped == Cardinality(MappedSetOf(ms, kind))
        IN  [mapped     |-> mapped,
             total      |-> total,
             percentage |-> Percentage(mapped, total),
             unmapped   |-> <<>>]]

\* the dict execute and _generate_enhanced_mock_mappings return
DegradeResult(ms, qs, uoc) ==
    [mappings        |-> ms,
     analysis        |-> DegradeAnalyzeMappingCoverage(ms, uoc),
     total_questions |-> Len(qs)]

\* _generate_enhanced_mock_mappings(questions, uoc_data, assessment_type)
GenerateEnhancedMockMappings(qs, uoc) ==
    DegradeResult([i \in 1..Len(qs) |-> MockMapping(qs[i], uoc)], qs, uoc)

\* ---- inputs --------------------------------------------------------------
FullAssessment == [f \in AssessmentFields |-> <<"H", "I", "G", "H">>]

FullAnalysis ==
    [kind \in Kinds |-> IF kind = "mapped_elements" THEN <<ElementItem>> ELSE <<>>]

\* the objects a reply of the variant can parse to: a complete one, under the
\* Question's id or another; one without overall_assessment; one with two of
\* the four lists; one whose overall_assessment lacks fields
DegradeDataInputs(question) ==
    {[question_id |-> qid, mapping_analysis |-> FullAnalysis,
      overall_assessment |-> FullAssessment] :
        qid \in {question.id, ForeignQuestionId}}
    \cup {[question_id |-> question.id, mapping_analysis |-> FullAnalysis],
          [question_id |-> question.id,
           mapping_analysis |-> [mapped_elements |-> <<ElementItem>>,
                                 mapped_performance_criteria |-> <<>>],
           overall_assessment |-> FullAssessment],
          [question_id |-> question.id, mapping_analysis |-> FullAnalysis,
           overall_assessment |-> [mapping_quality |-> <<"H", "I", "G", "H">>]]}

\* what the call for one Question can come back with, after how many posts:
\* nothing, every attempt having met a transport error; nothing, the last post
\* answered without text; text without an object; text with an object
DegradeReplyInputs(question) ==
    {[status |-> "error", parse |-> "none", data |-> <<>>, posts |-> MaxRetries]}
    \cup {[status |-> "no_text", parse |-> "none", data |-> <<>>, posts |-> n] :
             n \in 1..MaxRetries}
    \cup {[status |-> "text", parse |-> "no_json", data |-> <<>>, posts |-> 1]}
    \cup {[status |-> "text", parse |-> "object", data |-> d, posts |-> n] :
             d \in DegradeDataInputs(question), n \in {1, MaxRetries}}

InitDegrade == InitExecute

\* if not self.api_key: return self._generate_enhanced_mock_mappings(...);
\* mappings = []
DegradeBegin ==
    /\ exe_pc = "start"
    /\ IF api_key
       THEN /\ exe_pc' = "loop"
            /\ UNCHANGED returned
       ELSE /\ exe_pc' = "returned"
            /\ returned' = GenerateEnhancedMockMappings(questions, ExecuteStandard)
    /\ UNCHANGED <<api_key, questions, q_index, exe_mappings, api_response,
                   api_log, failed_at, varsOutsideExecute>>

\* one turn of the loop: the call with its retries, the parsing of the reply,
\* and: if mapping: mappings.append(mapping)
DegradeMapQuestion ==
    /\ exe_pc = "loop"
    /\ q_index < Len(questions)
    /\ \E reply \in DegradeReplyInputs(questions[q_index + 1]) :
          LET question == questions[q_index + 1]
              mapping  == DegradeMapSingleQuestion(reply, question, ExecuteStandard)
          IN  /\ api_log' = api_log \o DegradeCallAiApi(question, 0, reply.posts)
              /\ api_response' = reply
              /\ exe_mappings' = IF mapping = NoMapping THEN exe_mappings
                                 ELSE Append(exe_mappings, mapping)
              /\ q_index' = q_index + 1
              /\ failed_at' = IF mapping = NoMapping THEN q_index + 1 ELSE failed_at
    /\ UNCHANGED <<api_key, questions, exe_pc, returned, varsOutsideExecute>>

\* after the loop: the coverage analysis, then the return
DegradeReturn ==
    /\ exe_pc = "loop"
    /\ q_index = Len(questions)
    /\ returned' = DegradeResult(exe_mappings, questions, ExecuteStandard)
    /\ exe_pc' = "returned"
    /\ UNCHANGED <<api_key, questions, q_index, exe_mappings, api_response,
                   api_log, failed_at, varsOutsideExecute>>

NextDegrade == DegradeBegin \/ DegradeMapQuestion \/ DegradeReturn

(***************************************************************************)
(* MappingAgent._clean_json_response and _fix_common_json_issues           *)
(***************************************************************************)

\* the characters of a reply that \s matches
Whitespace == {" ", "\n", "\t", "\r"}

\* the characters of a reply in [\x00-\x1f\x7f-\x9f]
ControlChars == {"\n", "\t", "\r"}

\* s[a:b] for 0 <= a, the end clamped to the length
Slice(s, a, b) == SubSeq(s, a + 1, IF b < Len(s) THEN b ELSE Len(s))

\* s.find(c): the 0-based position of the first c, -1 when there is none
Find(s, c) ==
    IF \E i \in 1..Len(s) : s[i] = c
    THEN (CHOOSE i \in 1..Len(s) : s[i] = c /\ \A j \in 1..(i - 1) : s[j] # c) - 1
    ELSE -1

\* s.rfind(c): the 0-based position of the last c, -1 when there is none
RFind(s, c) ==
    IF \E i \in 1..Len(s) : s[i] = c
    THEN (CHOOSE i \in 1..Len(s) : s[i] = c /\ \A j \in (i + 1)..Len(s) : s[j] # c) - 1
    ELSE -1

\* the first position from i on that holds no whitespace: what \s* runs up to
SkipSpace(s, i) ==
    CHOOSE j \in i..(Len(s) + 1) :
        /\ j = Len(s) + 1 \/ s[j] \notin Whitespace
        /\ \A k \in i..(j - 1) : s[k] \in Whitespace

\* the literal lit stands at position i of s
MatchesAt(s, i, lit) ==
    /\ i + Len(lit) - 1 <= Len(s)
    /\ SubSeq(s, i, i + Len(lit) - 1) = lit

\* re.sub(lit + r'\s*', '', s), from position i on
RECURSIVE RemoveWithSpace(_, _, _)
RemoveWithSpace(s, lit, i) ==
    IF i > Len(s) THEN <<>>
    ELSE IF MatchesAt(s, i, lit)
         THEN RemoveWithSpace(s, lit, SkipSpace(s, i + Len(lit)))
         ELSE <<s[i]>> \o RemoveWithSpace(s, lit, i + 1)

\* re.sub(r',(\s*[}\]])', r'\1', s), from position i on
RECURSIVE FixTrailingCommas(_, _)
FixTrailingCommas(s, i) ==
    IF i > Len(s) THEN <<>>
    ELSE LET j == SkipSpace(s, i + 1)
         IN  IF s[i] = "," /\ j <= Len(s) /\ s[j] \in {"}", "]"}
             THEN SubSeq(s, i + 1, j) \o FixTrailingCommas(s, j + 1)
             ELSE <<s[i]>> \o FixTrailingCommas(s, i + 1)

\* (?<!\\)"(?=.*".*:) matches at position i: a quote not preceded by a
\* backslash and followed, on the same line, by a later quote and a still
\* later colon
QuoteToEscape(s, i) ==
    /\ s[i] = "\""
    /\ i = 1 \/ s[i - 1] # "\\"
    /\ \E j \in (i + 1)..Len(s) : \E k \in (j + 1)..Len(s) :
          /\ s[j] = "\""
          /\ s[k] = ":"
          /\ \A n \in (i + 1)..(k - 1) : s[n] # "\n"

\* re.sub(r'(?<!\\)"(?=.*".*:)', r'\\"', s), from position i on
RECURSIVE EscapeQuotes(_, _)
EscapeQuotes(s, i) ==
    IF i > Len(s) THEN <<>>
    ELSE (IF QuoteToEscape(s, i) THEN <<"\\", "\"">> ELSE <<s[i]>>)
             \o EscapeQuotes(s, i + 1)

\* re.sub(close + r'\s*' + open, close + ',' + open, s), from position i on
RECURSIVE JoinAdjacent(_, _, _, _)
JoinAdjacent(s, close, open, i) ==
    IF i > Len(s) THEN <<>>
    ELSE LET j == SkipSpace(s, i + 1)
         IN  IF s[i] = close /\ j <= Len(s) /\ s[j] = open
             THEN <<close, ",", open>> \o JoinAdjacent(s, close, open, j + 1)
             ELSE <<s[i]>> \o JoinAdjacent(s, close, open, i + 1)

\* re.sub(r'[\x00-\x1f\x7f-\x9f]', '', s)
RemoveControlChars(s) == SelectSeq(s, LAMBDA c : c \notin ControlChars)

\* _fix_common_json_issues(json_str)
FixCommonJsonIssues(json_str) ==
    LET no_trailing == FixTrailingCommas(json_str, 1)
        escaped     == EscapeQuotes(no_trailing, 1)
        objects     == JoinAdjacent(escaped, "}", "{", 1)
        arrays      == JoinAdjacent(objects, "]", "[", 1)
    IN  RemoveControlChars(arrays)

\* ---- json.loads ------------------------------------------------------------
\* The replies of this model hold objects, arrays, strings, whole numbers and
\* the three literals; json.loads is modelled on that part of the grammar.

\* the closing quote of the string whose content starts at j, 0 if the string
\* is not terminated, holds a raw control character or a bad escape
RECURSIVE StringEnd(_, _)
StringEnd(s, j) ==
    IF j > Len(s) THEN 0
    ELSE IF s[j] = "\"" THEN j
    ELSE IF s[j] = "\\"
         THEN IF j + 1 <= Len(s) /\ s[j + 1] \in {"\"", "\\", "/", "b", "f", "n", "r", "t"}
              THEN StringEnd(s, j + 2)
              ELSE 0
    ELSE IF s[j] \in ControlChars THEN 0
    ELSE StringEnd(s, j + 1)

\* the last digit of the whole number that starts at i
NumberEnd(s, i) ==
    IF s[i] = "0" THEN i
    ELSE CHOOSE j \in i..Len(s) :
            /\ \A k \in i..j : IsDigit(s[k])
            /\ j = Len(s) \/ ~IsDigit(s[j + 1])

JsonLiterals == {<<"t", "r", "u", "e">>, <<"f", "a", "l", "s", "e">>,
                 <<"n", "u", "l", "l">>}

\* json.loads failed
JsonError == [ok |-> FALSE, value |-> <<>>]

\* The decoder at position i0, inside the open brackets of stack, expecting
\*   "value", "value_or_close" (after "["), "key_or_close" (after "{"),
\*   "key" (after "," in an object), "colon" or "after" (a value is complete).
\* out collects the value read so far, written without insignificant whitespace.
RECURSIVE JsonScan(_, _, _, _, _)
JsonScan(s, i0, stack, expect, out) ==
    LET i      == SkipSpace(s, i0)
        c      == s[i]
        top    == stack[Len(stack)]
        pop    == SubSeq(stack, 1, Len(stack) - 1)
        str    == StringEnd(s, i + 1)
        num    == NumberEnd(s, i)
        word   == CHOOSE w \in JsonLiterals : MatchesAt(s, i, w)
        Go(next, st, ex) == JsonScan(s, next, st, ex, out \o SubSeq(s, i, next - 1))
    IN  IF i > Len(s)
        THEN IF expect = "after" /\ stack = <<>>
             THEN [ok |-> TRUE, value |-> out]
             ELSE JsonError
        ELSE IF expect = "after"
        THEN IF stack = <<>> THEN JsonError
             ELSE IF c = "," THEN Go(i + 1, stack, IF top = "{" THEN "key" ELSE "value")
             ELSE IF (c = "}" /\ top = "{") \/ (c = "]" /\ top = "[")
                  THEN Go(i + 1, pop, "after")
             ELSE JsonError
        ELSE IF expect = "colon"
        THEN IF c = ":" THEN Go(i + 1, stack, "value") ELSE JsonError
        ELSE IF expect \in {"key", "key_or_close"}
        THEN IF c = "\"" /\ str # 0 THEN Go(str + 1, stack, "colon")
             ELSE IF c = "}" /\ expect = "key_or_close" THEN Go(i + 1, pop, "after")
             ELSE JsonError
        ELSE \* "value" or "value_or_close"
             IF c = "]" /\ expect = "value_or_close" THEN Go(i + 1, pop, "after")
             ELSE IF c = "{" THEN Go(i + 1, Append(stack, "{"), "key_or_close")
             ELSE IF c = "[" THEN Go(i + 1, Append(stack, "["), "value_or_close")
             ELSE IF c = "\"" /\ str # 0 THEN Go(str + 1, stack, "after")
             ELSE IF IsDigit(c) THEN Go(num + 1, stack, "after")
             ELSE IF \E w \in JsonLiterals : MatchesAt(s, i, w)
                  THEN Go(i + Len(word), stack, "after")
             ELSE JsonError

\* json.loads(s): whether s parses, and the value it parses to
JsonLoads(s) == JsonScan(s, 1, <<>>, "value", <<>>)

\* ---- _clean_json_response --------------------------------------------------

\* the first brace from i on, or the position after the end
NextBrace(s, i) ==
    CHOOSE j \in i..(Len(s) + 1) :
        /\ j = Len(s) + 1 \/ s[j] \in {"{", "}"}
        /\ \A k \in i..(j - 1) : s[k] \notin {"{", "}"}

\* r'\{[^{}]*(?:\{[^{}]*\}[^{}]*)*\}' with its [^{}]* run ended by the brace at
\* p: the position of the closing brace of the match, 0 if there is no match
RECURSIVE BraceGroups(_, _)
BraceGroups(s, p) ==
    IF p > Len(s) THEN 0
    ELSE IF s[p] = "}" THEN p
    ELSE LET q == NextBrace(s, p + 1)
         IN  IF q <= Len(s) /\ s[q] = "}"
             THEN BraceGroups(s, NextBrace(s, q + 1))
             ELSE 0

\* re.findall(json_pattern, s, re.DOTALL), from position i on
RECURSIVE FindAllObjects(_, _)
FindAllObjects(s, i) ==
    IF i > Len(s) THEN <<>>
    ELSE LET end == IF s[i] = "{" THEN BraceGroups(s, NextBrace(s, i + 1)) ELSE 0
         IN  IF end # 0
             THEN <<SubSeq(s, i, end)>> \o FindAllObjects(s, end + 1)
             ELSE FindAllObjects(s, i + 1)

\* the no-result value of the repair stage: None
NoResult == [found |-> FALSE, text |-> <<>>]

Found(text) == [found |-> TRUE, text |-> text]

\* the backquote character, which a string of this notation cannot hold
Backquote == "backquote"

CodeFenceJson == <<Backquote, Backquote, Backquote, "j", "s", "o", "n">>
CodeFence == <<Backquote, Backquote, Backquote>>

\* _clean_json_response(response)
CleanJsonResponse(response) ==
    LET \* Method 1
        start1  == Find(response, "{")
        end1    == RFind(response, "}") + 1
        cand1   == Slice(response, start1, end1)
        \* Method 2
        cleaned == RemoveWithSpace(RemoveWithSpace(response, CodeFenceJson, 1),
                                   CodeFence, 1)
        json_start == Find(cleaned, "{")
        json_end   == RFind(cleaned, "}") + 1
        cand2   == Slice(cleaned, json_start, json_end)
        \* Method 3: json_start and json_end of cleaned, applied to response
        cand3   == FixCommonJsonIssues(Slice(response, json_start, json_end))
        \* Method 4
        matches == FindAllObjects(response, 1)
        good    == {k \in 1..Len(matches) : JsonLoads(matches[k]).ok}
        first   == CHOOSE k \in good : \A n \in good : k <= n
    IN  IF start1 # -1 /\ end1 > start1 /\ JsonLoads(cand1).ok THEN Found(cand1)
        ELSE IF json_start # -1 /\ json_end > json_start /\ JsonLoads(cand2).ok
             THEN Found(cand2)
        ELSE IF json_start # -1 /\ json_end > json_start /\ JsonLoads(cand3).ok
             THEN Found(cand3)
        ELSE IF good # {} THEN Found(matches[first])
        ELSE NoResult

\* ---- inputs --------------------------------------------------------------
MaxPairs == 2

KeyLetters == <<"a", "b", "c", "d", "e", "f">>

\* the values a pair of a reply object can hold: a number, a string, an
\* object, an array, an object with a trailing comma
ValueInputs == {<<"1">>, <<"\"", "x", "\"">>, <<"{", "\"", "b", "\"", ":", "1", "}">>, <<"[", "1", "]">>, <<"{", "\"", "b", "\"", ":", "1", ",", "}">>}

\* the text of the pairs i.. of an object whose values are vs
RECURSIVE PairsText(_, _)
PairsText(vs, i) ==
    IF i > Len(vs) THEN <<>>
    ELSE <<"\"", KeyLetters[i], "\"", ":">> \o vs[i]
             \o (IF i < Len(vs) THEN <<",">> ELSE <<>>) \o PairsText(vs, i + 1)

\* an object of up to MaxPairs pairs, with or without a trailing comma
BodyInputs ==
    {<<"{", "}">>}
    \cup {<<"{">> \o PairsText(vs, 1) \o trailing \o <<"}">> :
            vs \in UNION {[1..n -> ValueInputs] : n \in 1..MaxPairs},
            trailing \in {<<>>, <<",">>}}

ProseInputs == {<<>>, <<"H", "e", "r", "e", " ", "y", "o", "u", " ", "g", "o", ":", " ">>}

\* what stands before and after the object: nothing, or a code fence
FenceInputs ==
    {<< <<>>, <<>> >>,
     << CodeFenceJson \o <<" ">>, <<" ">> \o CodeFence >>,
     << CodeFenceJson \o <<"\n">>, <<"\n">> \o CodeFence >>,
     << CodeFence \o <<"\n">>, <<"\n">> \o CodeFence >>}

\* ```json 12 rows {}}  : a fenced reply with text before a broken object
ShiftedReply ==
    CodeFenceJson \o <<" ", "1", "2", " ", "r", "o", "w", "s", " ", "{", "}", "}">>

ReplyTexts ==
    {prose \o fence[1] \o body \o fence[2] :
        prose \in ProseInputs, fence \in FenceInputs, body \in BodyInputs}
    \cup {ShiftedReply}

InitRepair ==
    /\ IdleOutsideRepair
    /\ reply_text \in ReplyTexts
    /\ cleaned_response = NoResult
    /\ loaded_data = JsonError
    /\ repair_pc = "received"

\* cleaned_response = self._clean_json_response(response)
RepairReply ==
    /\ repair_pc = "received"
    /\ cleaned_response' = CleanJsonResponse(reply_text)
    /\ repair_pc' = "cleaned"
    /\ UNCHANGED <<reply_text, loaded_data, varsOutsideRepair>>

\* if not cleaned_response: return None; mapping_data = json.loads(cleaned_response)
LoadRepaired ==
    /\ repair_pc = "cleaned"
    /\ IF cleaned_response.found
       THEN /\ loaded_data' = JsonLoads(cleaned_response.text)
            /\ repair_pc' = "loaded"
       ELSE /\ loaded_data' = loaded_data
            /\ repair_pc' = "no_result"
    /\ UNCHANGED <<reply_text, cleaned_response, varsOutsideRepair>>

NextRepair == RepairReply \/ LoadRepaired

(***************************************************************************)
(* ExtractAgent._split_by_questions and _group_into_chunks                 *)
(***************************************************************************)

\* s.strip()
Strip(s) ==
    With(s, LAMBDA v :
        IF \A i \in 1..Len(v) : v[i] \in Whitespace THEN <<>>
        ELSE SubSeq(v, SkipSpace(v, 1),
                    CHOOSE j \in 1..Len(v) :
                        /\ v[j] \notin Whitespace
                        /\ \A k \in (j + 1)..Len(v) : v[k] \in Whitespace))

\* "\n".join(parts)
RECURSIVE JoinLines(_)
JoinLines(parts) ==
    IF parts = <<>> THEN <<>>
    ELSE IF Len(parts) = 1 THEN parts[1]
    ELSE parts[1] \o <<"\n">> \o JoinLines(Tail(parts))

\* the elements of s at the positions of keep, in order
Pick(s, keep) ==
    LET Nth(j) == CHOOSE i \in keep : Cardinality({k \in keep : k <= i}) = j
    IN  [j \in 1..Cardinality(keep) |-> s[Nth(j)]]

\* t.split("\n")
SplitLines(t) ==
    With(t, LAMBDA v :
        With({k \in 1..Len(v) : v[k] = "\n"} \cup {Len(v) + 1}, LAMBDA ends :
            LET stop(b) == CHOOSE k \in ends :
                               k >= b /\ \A n \in ends : n >= b => k <= n
            IN  Pick([b \in 1..(Len(v) + 1) |-> SubSeq(v, b, stop(b) - 1)],
                     {1} \cup {k + 1 : k \in ends \ {Len(v) + 1}})))

\* the lookahead (?=\d+\.) holds at position i
DigitsDotAt(s, i) ==
    /\ i <= Len(s)
    /\ IsDigit(s[i])
    /\ \E j \in (i + 1)..Len(s) :
          s[j] = "." /\ \A k \in i..(j - 1) : IsDigit(s[k])

\* len(question) > 10 keeps a fragment
MinFragment == 10

\* re.split(r'(?=\d+\.)', text): the text is cut before every position where
\* the lookahead holds
SplitAtLookahead(text) ==
    LET starts  == {1} \cup {i \in 2..Len(text) : DigitsDotAt(text, i)}
        stop(b) == IF \E c \in starts : c > b
                   THEN (CHOOSE c \in starts : c > b /\ \A d \in starts : d > b => c <= d) - 1
                   ELSE Len(text)
        Nth(j)  == CHOOSE b \in starts : Cardinality({c \in starts : c <= b}) = j
    IN  [j \in 1..Cardinality(starts) |-> SubSeq(text, Nth(j), stop(Nth(j)))]

\* _split_by_questions(text)
SplitByQuestions(text) ==
    LET stripped == [j \in DOMAIN SplitAtLookahead(text) |->
                        Strip(SplitAtLookahead(text)[j])]
    IN  Pick(stripped, {j \in DOMAIN stripped : Len(stripped[j]) > MinFragment})

\* the loop of _group_into_chunks from fragment i on, with the chunks closed so
\* far and the chunk being filled
RECURSIVE PackFrom(_, _, _, _, _)
PackFrom(groups, max_size, i, closed, current) ==
    IF i > Len(groups)
    THEN IF current # <<>> THEN Append(closed, Strip(current)) ELSE closed
    ELSE IF Len(current \o groups[i]) > max_size /\ current # <<>>
         THEN PackFrom(groups, max_size, i + 1, Append(closed, Strip(current)), groups[i])
         ELSE PackFrom(groups, max_size, i + 1, closed,
                       IF current # <<>> THEN current \o <<"\n">> \o groups[i]
                       ELSE groups[i])

\* _group_into_chunks(questions, max_size)
GroupIntoChunks(groups, max_size) == PackFrom(groups, max_size, 1, <<>>, <<>>)

\* ---- inputs --------------------------------------------------------------
MaxLines == 3

\* the chunk_size execute_from_text passes to _process_in_chunks
ChunkSize == 3500

\* a cap small enough for the texts of this model to need several chunks
SmallChunkSize == 40

\* the lines a text is made of: numbered questions (one of them with a number
\* of two digits, one of them short), a choice line, a line with a decimal
LineInputs ==
    {<<"1", ".", " ", "D", "e", "s", "c", "r", "i", "b", "e", " ", "h", "y", "g", "i", "e", "n", "e">>,
     <<"2", ".", " ", "E", "x", "p", "l", "a", "i", "n", " ", "g", "l", "o", "v", "e", "s">>,
     <<"1", "2", ".", " ", "D", "e", "s", "c", "r", "i", "b", "e", " ", "m", "a", "s", "k", "s">>,
     <<"3", ".", " ", "W", "h", "y", "?">>,
     <<"a", ")", " ", "s", "o", "a", "p", " ", "a", "n", "d", " ", "w", "a", "t", "e", "r">>,
     <<"U", "s", "e", " ", "3", ".", "5", " ", "m", "l", " ", "o", "f", " ", "s", "o", "a", "p">>}

TextInputs ==
    {JoinLines(ls) : ls \in UNION {[1..n -> LineInputs] : n \in 1..MaxLines}}

InitChunk ==
    /\ IdleOutsideChunk
    /\ chunk_text \in TextInputs
    /\ chunk_size \in {SmallChunkSize, ChunkSize}
    /\ question_groups = <<>>
    /\ chunks = <<>>
    /\ chunk_pc = "start"

\* questions = self._split_by_questions(text)
SplitText ==
    /\ chunk_pc = "start"
    /\ question_groups' = SplitByQuestions(chunk_text)
    /\ chunk_pc' = "split"
    /\ UNCHANGED <<chunk_text, chunk_size, chunks, varsOutsideChunk>>

\* chunks = self._group_into_chunks(questions, chunk_size)
GroupChunks ==
    /\ chunk_pc = "split"
    /\ chunks' = GroupIntoChunks(question_groups, chunk_size)
    /\ chunk_pc' = "grouped"
    /\ UNCHANGED <<chunk_text, chunk_size, question_groups, varsOutsideChunk>>

NextChunk == SplitText \/ GroupChunks

(***************************************************************************)
(* ExtractAgent: the recognizers of a line                                 *)
(***************************************************************************)

UpperLetters == <<"A", "B", "C", "D", "E", "F", "G", "H", "I", "J", "K", "L", "M", "N",
                 "O", "P", "Q", "R", "S", "T", "U", "V", "W", "X", "Y", "Z">>

LowerLetters == <<"a", "b", "c", "d", "e", "f", "g", "h", "i", "j", "k", "l", "m", "n",
                 "o", "p", "q", "r", "s", "t", "u", "v", "w", "x", "y", "z">>

IsUpper(c) == \E i \in 1..Len(UpperLetters) : UpperLetters[i] = c

IsLetter(c) == IsUpper(c) \/ \E i \in 1..Len(LowerLetters) : LowerLetters[i] = c

\* \w
IsWordChar(c) == IsLetter(c) \/ IsDigit(c) \/ c = "_"

\* s.lower()
Lower(s) ==
    With(s, LAMBDA v :
        SubSeq([i \in 1..Len(v) |->
                   IF IsUpper(v[i])
                   THEN LowerLetters[CHOOSE k \in 1..Len(UpperLetters) :
                                         UpperLetters[k] = v[i]]
                   ELSE v[i]],
               1, Len(v)))

\* w in s
Contains(s, w) ==
    \E i \in 1..(Len(s) - Len(w) + 1) : SubSeq(s, i, i + Len(w) - 1) = w

\* any(word in s for word in words)
ContainsAny(s, words) == With(s, LAMBDA v : \E w \in words : Contains(v, w))

\* the length of the run of digits that starts at position i
DigitRun(s, i) ==
    CHOOSE n \in 0..(Len(s) + 1 - i) :
        /\ \A k \in i..(i + n - 1) : IsDigit(s[k])
        /\ i + n > Len(s) \/ ~IsDigit(s[i + n])

\* the length of the run of whitespace that starts at position i
SpaceRun(s, i) == SkipSpace(s, i) - i

NoMatch == [matched |-> FALSE, num |-> <<>>, sub |-> <<>>, text |-> <<>>]

\* re.match(r'^(\d+)\.\s*(.+?)$', line) on a stripped line: the number and
\* the stripped title
MainMatch(s) ==
    With(s, LAMBDA line :
        With(DigitRun(line, 1), LAMBDA n :
            IF n >= 1 /\ Len(line) >= n + 2 /\ line[n + 1] = "."
            THEN [matched |-> TRUE, num |-> SubSeq(line, 1, n), sub |-> <<>>,
                  text |-> Strip(SubSeq(line, n + 2, Len(line)))]
            ELSE NoMatch))

\* digits, optional whitespace and at least one more character from position
\* a on, as \d+\s*(.+?)$ reads them: the digits give one back when nothing
\* follows them
DigitsThenText(line, a) ==
    LET d     == DigitRun(line, a)
        after == a + d
    IN  IF d >= 1 /\ after <= Len(line)
        THEN [matched |-> TRUE, num |-> <<>>, sub |-> SubSeq(line, a, after - 1),
              text |-> Strip(SubSeq(line, after, Len(line)))]
        ELSE IF d >= 2
        THEN [matched |-> TRUE, num |-> <<>>, sub |-> SubSeq(line, a, after - 2),
              text |-> <<line[Len(line)]>>]
        ELSE NoMatch

\* re.match(r'^(\d+)\.\s*(\d+)\s*(.+?)$', line) on a stripped line
SubMatch(s) ==
    With(s, LAMBDA line :
        With(DigitRun(line, 1), LAMBDA n :
            IF n >= 1 /\ Len(line) >= n + 1 /\ line[n + 1] = "."
            THEN With(DigitsThenText(line, SkipSpace(line, n + 2)), LAMBDA rest :
                     IF rest.matched THEN [rest EXCEPT !.num = SubSeq(line, 1, n)]
                     ELSE NoMatch)
            ELSE NoMatch))

QuestionWord == <<"q", "u", "e", "s", "t", "i", "o", "n">>

\* self.question_patterns[p - 1] matched against one stripped line with
\* re.IGNORECASE: group(1).strip()
PatternMatch(s, p) ==
    With(s, LAMBDA line :
        LET n    == DigitRun(line, 1)
            Rest(a) == IF a <= Len(line)
                       THEN [NoMatch EXCEPT
                                !.matched = TRUE,
                                !.text = Strip(SubSeq(line, a, Len(line)))]
                       ELSE NoMatch
        IN  CASE p = 1 ->
                   IF n >= 1 /\ Len(line) >= n + 1 /\ line[n + 1] = "."
                   THEN Rest(n + 2) ELSE NoMatch
              [] p = 2 ->
                   IF n >= 1 /\ Len(line) >= n + 1 /\ line[n + 1] = "."
                             /\ SpaceRun(line, n + 2) >= 1
                   THEN DigitsThenText(line, SkipSpace(line, n + 2)) ELSE NoMatch
              [] p = 3 ->
                   IF Len(line) >= 2 /\ IsLetter(line[1]) /\ line[2] = "."
                   THEN Rest(3) ELSE NoMatch
              [] p = 4 ->
                   LET a == Len(QuestionWord) + 1
                       b == SkipSpace(line, a)
                       d == DigitRun(line, b)
                   IN  IF /\ Len(line) >= a
                          /\ Lower(SubSeq(line, 1, a - 1)) = QuestionWord
                          /\ b > a /\ d >= 1
                          /\ Len(line) >= b + d /\ line[b + d] = ":"
                       THEN Rest(b + d + 1) ELSE NoMatch
              [] p = 5 ->
                   LET d == DigitRun(line, 2)
                   IN  IF /\ Len(line) >= 1 /\ line[1] \in {"q", "Q"}
                          /\ d >= 1 /\ Len(line) >= d + 2 /\ line[d + 2] = "."
                       THEN Rest(d + 3) ELSE NoMatch)

\* position a of s holds, after optional whitespace, a word character: \s*\w+
WordAfter(s, a) ==
    LET b == SkipSpace(s, a) IN b <= Len(s) /\ IsWordChar(s[b])

\* the line starts another question, as _get_full_question_text tests it:
\* ^\d+\.\s*\w+ (which covers ^\d+\.\s*\d+\s*\w+), ^[A-Z]\.\s*\w+,
\* ^Question\s+\d+: and ^Q\d+\.\s*\w+
StartsQuestion(s, lettered) ==
    With(s, LAMBDA line :
        LET n == DigitRun(line, 1)
            q == DigitRun(line, 2)
            a == Len(QuestionWord) + 1
            b == SkipSpace(line, a)
            d == DigitRun(line, b)
        IN  \/ /\ n >= 1 /\ Len(line) >= n + 1 /\ line[n + 1] = "."
               /\ WordAfter(line, n + 2)
            \/ /\ lettered
               /\ Len(line) >= 2 /\ IsUpper(line[1]) /\ line[2] = "."
               /\ WordAfter(line, 3)
            \/ /\ Len(line) >= a /\ line[1] = "Q"
               /\ StartsWith(DropFirst(line, 1), DropFirst(QuestionWord, 1))
               /\ b > a /\ d >= 1 /\ Len(line) >= b + d /\ line[b + d] = ":"
            \/ /\ Len(line) >= 1 /\ line[1] = "Q" /\ q >= 1
               /\ Len(line) >= q + 2 /\ line[q + 2] = "." /\ WordAfter(line, q + 3))

\* the loop of _get_full_question_text from line i on, acc the lines taken
RECURSIVE QuestionLinesFrom(_, _, _)
QuestionLinesFrom(lines, i, acc) ==
    IF i > Len(lines) THEN acc
    ELSE With(Strip(lines[i]), LAMBDA line :
             IF StartsQuestion(line, TRUE) THEN acc
             ELSE IF /\ line = <<>> /\ i + 1 <= Len(lines)
                     /\ StartsQuestion(Strip(lines[i + 1]), FALSE)
                  THEN acc
             ELSE IF line # <<>> \/ acc[Len(acc)] # <<>>
                  THEN With(Append(acc, line), LAMBDA taken :
                           QuestionLinesFrom(lines, i + 1, taken))
                  ELSE QuestionLinesFrom(lines, i + 1, acc))

\* _get_full_question_text(lines, start_line), the line counted from 1
GetFullQuestionText(lines, start) ==
    Strip(JoinLines(QuestionLinesFrom(lines, start + 1, <<Strip(lines[start])>>)))

(***************************************************************************)
(* ExtractAgent: classification, choices and validation                    *)
(***************************************************************************)

McqWords ==
    {
     <<"m", "u", "l", "t", "i", "p", "l", "e", " ", "c", "h", "o", "i", "c", "e">>,
     <<"s", "e", "l", "e", "c", "t">>, <<"c", "h", "o", "o", "s", "e">>,
     <<"m", "c", "q">>,
     <<"s", "e", "l", "e", "c", "t", " ", "t", "h", "e", " ", "b", "e", "s", "t">>,
     <<"c", "h", "o", "o", "s", "e", " ", "t", "h", "e", " ", "c", "o", "r", "r", "e", "c", "t">>}

TrueFalseWords ==
    {<<"t", "r", "u", "e">>, <<"f", "a", "l", "s", "e">>, <<"t", "/", "f">>}

EssayWords ==
    {<<"d", "e", "s", "c", "r", "i", "b", "e">>,
     <<"e", "x", "p", "l", "a", "i", "n">>,
     <<"d", "i", "s", "c", "u", "s", "s">>,
     <<"a", "n", "a", "l", "y", "z", "e">>,
     <<"e", "l", "a", "b", "o", "r", "a", "t", "e">>}

ShortAnswerWords ==
    {<<"l", "i", "s", "t">>, <<"n", "a", "m", "e">>,
     <<"i", "d", "e", "n", "t", "i", "f", "y">>, <<"s", "t", "a", "t", "e">>}

QuestionWords ==
    {<<"h", "o", "w">>, <<"w", "h", "a", "t">>, <<"w", "h", "y">>,
     <<"w", "h", "e", "n">>, <<"w", "h", "e", "r", "e">>,
     <<"w", "h", "i", "c", "h">>, <<"w", "h", "o">>}

ScenarioWords ==
    {<<"s", "c", "e", "n", "a", "r", "i", "o">>,
     <<"c", "a", "s", "e", " ", "s", "t", "u", "d", "y">>,
     <<"s", "i", "t", "u", "a", "t", "i", "o", "n">>}

PracticalWords ==
    {<<"d", "e", "m", "o", "n", "s", "t", "r", "a", "t", "e">>,
     <<"s", "h", "o", "w">>, <<"p", "e", "r", "f", "o", "r", "m">>,
     <<"p", "r", "a", "c", "t", "i", "c", "e">>}

\* the labels of the choice patterns, read with re.IGNORECASE
ChoiceLabels == {"a", "b", "c", "d", "A", "B", "C", "D", "1", "2", "3", "4"}

\* re.search finds one of the choice patterns in s: a label, "." or ")",
\* optional whitespace and a word character (the bracketed forms "(A)" hold
\* the form "A)")
HasChoicePattern(text) ==
    With(text, LAMBDA s :
        \E i \in 1..(Len(s) - 1) :
            /\ s[i] \in ChoiceLabels
            /\ s[i + 1] \in {".", ")"}
            /\ WordAfter(s, i + 2))

\* a classifier that looks for the recall verbs before the explanation verbs
ClassifyRecallFirst(question_text) ==
    With(Lower(question_text), LAMBDA text_lower :
        LET asks == \E i \in 1..Len(text_lower) : text_lower[i] = "?"
        IN  IF HasChoicePattern(question_text) THEN "mcq"
            ELSE IF ContainsAny(text_lower, McqWords) THEN "mcq"
            ELSE IF ContainsAny(text_lower, TrueFalseWords) THEN "true_false"
            ELSE IF ContainsAny(text_lower, ShortAnswerWords) THEN "short_answer"
            ELSE IF ContainsAny(text_lower, EssayWords) THEN "essay"
            ELSE IF ContainsAny(text_lower, QuestionWords) /\ asks THEN "short_answer"
            ELSE IF ContainsAny(text_lower, ScenarioWords) THEN "scenario"
            ELSE IF ContainsAny(text_lower, PracticalWords) THEN "practical"
            ELSE IF asks THEN "question"
            ELSE "unknown")

\* _classify_question_type(question_text)
ClassifyQuestionType(question_text) ==
    With(Lower(question_text), LAMBDA text_lower :
        LET asks == \E i \in 1..Len(text_lower) : text_lower[i] = "?"
        IN  IF HasChoicePattern(question_text) THEN "mcq"
            ELSE IF ContainsAny(text_lower, McqWords) THEN "mcq"
            ELSE IF ContainsAny(text_lower, TrueFalseWords) THEN "true_false"
            ELSE IF ContainsAny(text_lower, EssayWords) THEN "essay"
            ELSE IF ContainsAny(text_lower, ShortAnswerWords) THEN "short_answer"
            ELSE IF ContainsAny(text_lower, QuestionWords) /\ asks THEN "short_answer"
            ELSE IF ContainsAny(text_lower, ScenarioWords) THEN "scenario"
            ELSE IF ContainsAny(text_lower, PracticalWords) THEN "practical"
            ELSE IF asks THEN "question"
            ELSE "unknown")

\* group(1).strip() of the choice pattern that matches a stripped line, or
\* the empty string when none does: a label with "." or ")", a dash, or a
\* label in brackets (the other bullet characters of the class are outside
\* the alphabet of the inputs)
ChoiceText(s) ==
    With(s, LAMBDA line :
        IF Len(line) >= 3 /\ line[1] \in ChoiceLabels /\ line[2] \in {".", ")"}
        THEN Strip(SubSeq(line, 3, Len(line)))
        ELSE IF Len(line) >= 2 /\ line[1] = "-"
        THEN Strip(SubSeq(line, 2, Len(line)))
        ELSE IF /\ Len(line) >= 4 /\ line[1] = "(" /\ line[3] = ")"
                /\ line[2] \in ChoiceLabels
        THEN Strip(SubSeq(line, 4, Len(line)))
        ELSE <<>>)

\* re.sub(r'^[L]\.\s*[L]\.\s*', first + '. ', s) for the labels L
DropDuplicateLabel(choice_text, labels, first) ==
    With(choice_text, LAMBDA s :
        LET b == SkipSpace(s, 3)
        IN  IF /\ Len(s) >= 2 /\ s[1] \in labels /\ s[2] = "."
               /\ Len(s) >= b + 1 /\ s[b] \in labels /\ s[b + 1] = "."
            THEN <<first, ".", " ">> \o SubSeq(s, SkipSpace(s, b + 2), Len(s))
            ELSE s)

\* the minimum length of a choice, a title, a question
MinChoiceLength == 2

MinTitleLength == 5

MinQuestionLength == 10

\* the loop of _extract_choices over the lines from i on
RECURSIVE ChoicesFrom(_, _)
ChoicesFrom(lines, i) ==
    IF i > Len(lines) THEN <<>>
    ELSE With(ChoiceText(Strip(lines[i])), LAMBDA choice_text :
             IF Len(choice_text) > MinChoiceLength
             THEN << DropDuplicateLabel(
                         DropDuplicateLabel(choice_text, {"A", "B", "C", "D"}, "A"),
                         {"1", "2", "3", "4"}, "1") >>
                  \o ChoicesFrom(lines, i + 1)
             ELSE ChoicesFrom(lines, i + 1))

\* _extract_choices(question_text, question_type)
ExtractChoices(question_text, question_type) ==
    IF question_type # "mcq" THEN <<>>
    ELSE With(SplitLines(question_text), LAMBDA lines : ChoicesFrom(lines, 1))

\* f"Q{n}" for a number n, f"Q{num}" for the digits num
QId(num) == <<"Q">> \o num

\* f"Question {n}"
QuestionN(n) == <<"Q", "u", "e", "s", "t", "i", "o", "n", " ">> \o Decimal(n)

\* the loop of _extract_potential_questions over the lines from i on
RECURSIVE PotentialFrom(_, _, _)
PotentialFrom(lines, i, found) ==
    IF i > Len(lines) THEN found
    ELSE With(Strip(lines[i]), LAMBDA line :
             IF /\ line # <<>>
                /\ \/ line[Len(line)] = "?"
                   \/ ContainsAny(Lower(line), QuestionWords)
             THEN With(Append(found,
                      [id              |-> QId(Decimal(Len(found) + 1)),
                       question_id     |-> QId(Decimal(Len(found) + 1)),
                       text            |-> line,
                       question_number |-> Decimal(Len(found) + 1),
                       line_number     |-> i,
                       pattern_used    |-> "question_detection",
                       type            |-> ClassifyQuestionType(line),
                       question_type   |-> ClassifyQuestionType(line),
                       choices         |-> <<>>]),
                      LAMBDA longer : PotentialFrom(lines, i + 1, longer))
             ELSE PotentialFrom(lines, i + 1, found))

\* _extract_potential_questions(text)
ExtractPotentialQuestions(text) ==
    With(SplitLines(text), LAMBDA lines : PotentialFrom(lines, 1, <<>>))

\* the fields _validate_questions makes sure of
ValidatedFields ==
    {"question_id", "id", "text", "question_number", "type", "question_type",
     "choices", "confidence", "line_number", "pattern_used"}

\* a validation that leaves each question as it came
ValidateNothing(question, i) == question

\* the body of the loop of _validate_questions for the i-th question: a field
\* that is present is kept (an empty text apart), a field that is missing is
\* set, question_id from id, id from question_id and question_type from type
ValidateQuestion(question, i) ==
    LET question_id == Get(question, "question_id",
                           Get(question, "id", QId(Decimal(i))))
    IN  [f \in DOMAIN question \cup ValidatedFields |->
            IF f = "text"
            THEN IF Get(question, "text", <<>>) = <<>> THEN QuestionN(i)
                 ELSE question.text
            ELSE IF f \in DOMAIN question THEN question[f]
            ELSE CASE f = "question_id"     -> question_id
                   [] f = "id"              -> question_id
                   [] f = "question_number" -> Decimal(i)
                   [] f = "type"            -> "unknown"
                   [] f = "question_type"   -> Get(question, "type", "unknown")
                   [] f = "choices"         -> <<>>
                   [] f = "confidence"      -> "medium"
                   [] f = "line_number"     -> i
                   [] f = "pattern_used"    -> "validated"]

\* _validate_questions(questions)
ValidateQuestions(qs) ==
    With(qs, LAMBDA list :
        [i \in 1..Len(list) |-> With(list[i], LAMBDA q : ValidateQuestion(q, i))])

(***************************************************************************)
(* ExtractAgent: formatting and pattern-based extraction                   *)
(***************************************************************************)

\* chr(64 + n): A, B, C, ... (past Z the characters are not letters)
ChoiceLetter(n) == IF n <= Len(UpperLetters) THEN UpperLetters[n] ELSE "chr"

\* "# Assessment Marking Guide\n"
GuideTitle ==
    <<"#", " ", "A", "s", "s", "e", "s", "s", "m", "e", "n", "t", " ",
      "M", "a", "r", "k", "i", "n", "g", " ", "G", "u", "i", "d", "e", "\n">>

\* "\n## Question "
QuestionTitle ==
    <<"\n", "#", "#", " ", "Q", "u", "e", "s", "t", "i", "o", "n", " ">>

\* the loop of _format_assessment_text over the lines from i on; the branch
\* for "N. M" lines is never taken, the branch for "N." lines is tested first
RECURSIVE FormatFrom(_, _, _)
FormatFrom(lines, i, choice_count) ==
    IF i > Len(lines) THEN <<>>
    ELSE With(Strip(lines[i]), LAMBDA line :
             LET n == DigitRun(line, 1)
             IN  IF \/ line = <<>>
                    \/ StartsWith(line, <<"P", "C", "-">>)
                    \/ StartsWith(line, <<"K", "E", "-">>)
                 THEN FormatFrom(lines, i + 1, choice_count)
                 ELSE IF n >= 1 /\ Len(line) >= n + 1 /\ line[n + 1] = "."
                 THEN << QuestionTitle \o SubSeq(line, 1, n),
                         <<"*", "*">> \o Strip(SubSeq(line, n + 2, Len(line)))
                                      \o <<"*", "*", "\n">> >>
                      \o FormatFrom(lines, i + 1, 0)
                 ELSE IF /\ ~StartsWith(line, <<"S", "e", "l", "e", "c", "t">>)
                         /\ ~StartsWith(line, <<"C", "h", "o", "o", "s", "e">>)
                         /\ Len(line) > MinQuestionLength
                 THEN << <<"-", " ", ChoiceLetter(choice_count + 1), ")", " ">>
                         \o line >>
                      \o FormatFrom(lines, i + 1, choice_count + 1)
                 ELSE FormatFrom(lines, i + 1, choice_count))

\* _format_assessment_text(text)
FormatAssessmentText(text) ==
    With(SplitLines(text), LAMBDA lines :
        JoinLines(<<GuideTitle>> \o FormatFrom(lines, 1, 0)))

\* d[k] = v
Put(d, k, v) == [x \in DOMAIN d \cup {k} |-> IF x = k THEN v ELSE d[x]]

\* self.question_patterns
QuestionPatterns ==
    << "^\\d+\\.\\s*(.+?)(?=\\n\\d+\\.|\\n\\n|$)",
       "^\\d+\\.\\s+\\d+\\s*(.+?)(?=\\n\\d+\\.|\\n\\n|$)",
       "^[A-Z]\\.\\s*(.+?)(?=\\n[A-Z]\\.|\\n\\n|$)",
       "^Question\\s+\\d+:\\s*(.+?)(?=\\nQuestion|\\n\\n|$)",
       "^Q\\d+\\.\\s*(.+?)(?=\\nQ\\d+|\\n\\n|$)" >>

\* the state of the loop of _extract_questions_from_text before the first line;
\* placeholder_at holds, for a main question created as a placeholder, its
\* position in questions (the list and main_questions share the object)
NoQuestions ==
    [questions |-> <<>>, main_questions |-> <<>>, placeholder_at |-> <<>>,
     question_counter |-> 1, used_ids |-> {}]

\* the heading branch: line i is "N. title"
HeadingStep(st, main, i) ==
    [st EXCEPT
        !.main_questions = Put(@, main.num,
            [id              |-> QId(main.num),
             question_id     |-> QId(main.num),
             text            |-> main.text,
             question_number |-> main.num,
             line_number     |-> i,
             pattern_used    |-> "question_heading",
             type            |-> "heading",
             question_type   |-> "topic",
             sub_questions   |-> <<>>]),
        !.placeholder_at = [x \in DOMAIN @ \ {main.num} |-> @[x]]]

\* the sub-question branch: line i is "N.M text"
SubQuestionStep(st, sub, i) ==
    LET base_id == QId(sub.num) \o <<".">> \o sub.sub
        Suffixed(k) == base_id \o <<"_">> \o Decimal(k)
        counter == CHOOSE k \in 1..(Cardinality(st.used_ids) + 1) :
                       /\ Suffixed(k) \notin st.used_ids
                       /\ \A j \in 1..(k - 1) : Suffixed(j) \in st.used_ids
        sub_question_id == IF base_id \in st.used_ids THEN Suffixed(counter)
                           ELSE base_id
        question_type == ClassifyQuestionType(sub.text)
        sub_question ==
            [id              |-> sub_question_id,
             question_id     |-> sub_question_id,
             text            |-> sub.text,
             question_number |-> sub.num \o <<".">> \o sub.sub,
             line_number     |-> i,
             pattern_used    |-> "sub_question",
             type            |-> question_type,
             question_type   |-> question_type,
             parent_question |-> QId(sub.num),
             choices         |-> ExtractChoices(sub.text, question_type)]
        placeholder ==
            [id              |-> QId(sub.num),
             question_id     |-> QId(sub.num),
             text            |-> <<"Q", "u", "e", "s", "t", "i", "o", "n", " ">> \o sub.num,
             question_number |-> sub.num,
             line_number     |-> i,
             pattern_used    |-> "main_question_placeholder",
             type            |-> "unknown",
             sub_questions   |-> <<sub_question>>]
        Adopt(q) == [q EXCEPT !.sub_questions = Append(@, sub_question)]
    IN  IF sub.num \in DOMAIN st.main_questions
        THEN [st EXCEPT
                !.used_ids = @ \cup {sub_question_id},
                !.main_questions[sub.num] = Adopt(@),
                !.questions =
                    Append(IF sub.num \in DOMAIN st.placeholder_at
                           THEN [@ EXCEPT ![st.placeholder_at[sub.num]] = Adopt(@)]
                           ELSE @,
                           sub_question)]
        ELSE [st EXCEPT
                !.used_ids = @ \cup {sub_question_id},
                !.main_questions = Put(@, sub.num, placeholder),
                !.placeholder_at = Put(@, sub.num, Len(st.questions) + 1),
                !.questions = @ \o <<placeholder, sub_question>>]

\* the loop over self.question_patterns: the first pattern that matches line
\* i with a text longer than the minimum gives a question
PatternStep(st, lines, i) ==
    LET line    == Strip(lines[i])
        hits    == {p \in 1..Len(QuestionPatterns) :
                       With(PatternMatch(line, p), LAMBDA match :
                           /\ match.matched
                           /\ Len(match.text) > MinQuestionLength)}
        counter == CHOOSE c \in st.question_counter
                                ..(st.question_counter + Cardinality(st.used_ids)) :
                       /\ QId(Decimal(c)) \notin st.used_ids
                       /\ \A b \in st.question_counter..(c - 1) :
                              QId(Decimal(b)) \in st.used_ids
        Question(pattern, question_id, full_question_text, question_type) ==
            [id            |-> question_id,
             question_id   |-> question_id,
             text          |-> full_question_text,
             line_number   |-> i,
             pattern_used  |-> QuestionPatterns[pattern],
             type          |-> question_type,
             question_type |-> question_type,
             choices       |-> ExtractChoices(full_question_text, question_type)]
    IN  With(hits, LAMBDA found :
            IF found = {} THEN st
            ELSE With(GetFullQuestionText(lines, i), LAMBDA full_question_text :
                 With(ClassifyQuestionType(full_question_text), LAMBDA question_type :
                 With(counter, LAMBDA number :
                     [st EXCEPT
                        !.used_ids = @ \cup {QId(Decimal(number))},
                        !.question_counter = number + 1,
                        !.questions = Append(@,
                            Question(CHOOSE p \in found : \A o \in found : p <= o,
                                     QId(Decimal(number)), full_question_text,
                                     question_type))]))))

\* the body of the loop of _extract_questions_from_text for line i
LineStep(st, lines, i) ==
    With(Strip(lines[i]), LAMBDA line :
        With(MainMatch(line), LAMBDA main :
            IF line = <<>> THEN st
            ELSE IF main.matched /\ Len(main.text) > MinTitleLength
            THEN HeadingStep(st, main, i)
            ELSE With(SubMatch(line), LAMBDA sub :
                     IF sub.matched /\ Len(sub.text) > MinQuestionLength
                     THEN SubQuestionStep(st, sub, i)
                     ELSE PatternStep(st, lines, i))))

\* the loop of _extract_questions_from_text from line i on
RECURSIVE LinesFrom(_, _, _)
LinesFrom(st, lines, i) ==
    IF i > Len(lines) THEN st
    ELSE With(LineStep(st, lines, i), LAMBDA next :
             LinesFrom(next, lines, i + 1))

\* the try block of _extract_questions_from_text(text)
ScanQuestions(text) ==
    With(SplitLines(text), LAMBDA lines :
        With(LinesFrom(NoQuestions, lines, 1).questions, LAMBDA scanned :
            ValidateQuestions(IF scanned = <<>>
                              THEN PotentialFrom(lines, 1, <<>>)
                              ELSE scanned)))

(***************************************************************************)
(* ExtractAgent: the external model and the entry points                   *)
(***************************************************************************)

\* what a call returns: a value, or an exception of some kind on its way out
Ok(v) == [raised |-> FALSE, kind |-> "", value |-> v]

Raise(kind) == [raised |-> TRUE, kind |-> kind, value |-> <<>>]

\* the exceptions of the model; all of them are instances of Exception
ExceptionKinds == {"RequestException", "JSONDecodeError", "TypeError",
                   "AttributeError"}

\* a handler that lets every exception pass
CatchNothing(attempt, kinds, handler) == attempt

\* try: attempt / except kinds: handler
Catch(attempt, kinds, handler) ==
    With(attempt, LAMBDA a : IF a.raised /\ a.kind \in kinds THEN handler ELSE a)

\* the value of "questions" in the decoded reply: a list of items, or null
JsonList(items) == [json_type |-> "list", items |-> items]

JsonNull == [json_type |-> "null", items |-> <<>>]

\* _call_llm_api returned None
NoReply == [present |-> FALSE, text |-> <<>>]

\* the thresholds of execute_from_text and _extract_questions_with_llm
MinTextLength == 50

ChunkThreshold == 5000

LlmTextLimit == 6000

Truncated == <<"\n", "[", "T", "R", "U", "N", "C", "A", "T", "E", "D", "]">>

\* _extract_questions_from_text(text)
ExtractQuestionsFromText(text) ==
    Catch(Ok(ScanQuestions(text)), ExceptionKinds, Ok(<<>>))

\* _call_llm_api(prompt), post what requests.post does
CallLlmApi(key, post) ==
    Catch(IF ~key THEN Ok(NoReply)
          ELSE IF post.raises THEN Raise("RequestException")
          ELSE IF post.status_code = 200 /\ post.has_text
          THEN Ok([present |-> TRUE, text |-> post.text])
          ELSE Ok(NoReply),
          ExceptionKinds, Ok(NoReply))

\* the conversion of the i-th question of the reply to the standard format
FormatQuestion(q, i) ==
    [id              |-> Get(q, "id", QId(Decimal(i))),
     question_id     |-> Get(q, "id", QId(Decimal(i))),
     text            |-> Get(q, "text", <<>>),
     question_number |-> Get(q, "question_number", Decimal(i)),
     type            |-> Get(q, "type", "unknown"),
     question_type   |-> Get(q, "question_type", "unknown"),
     choices         |-> Get(q, "choices", <<>>),
     confidence      |-> Get(q, "confidence", "medium"),
     line_number     |-> i,
     pattern_used    |-> "llm_extraction"]

\* the inner try block of _extract_questions_with_llm: response is the text
\* of the reply and data what json.loads makes of its JSON part
ParseLlmResponse(text, response, data) ==
    LET stripped   == Strip(response)
        unfenced   == IF StartsWith(stripped, CodeFenceJson)
                      THEN DropFirst(stripped, Len(CodeFenceJson)) ELSE stripped
        closed     == Len(unfenced) >= Len(CodeFence)
                      /\ DropFirst(unfenced, Len(unfenced) - Len(CodeFence)) = CodeFence
    IN  With(Strip(IF closed
                   THEN SubSeq(unfenced, 1, Len(unfenced) - Len(CodeFence))
                   ELSE unfenced), LAMBDA cleaned :
        With(Get(data, "questions", JsonList(<<>>)), LAMBDA listed :
            LET json_start == Find(cleaned, "{")
                json_end   == RFind(cleaned, "}") + 1
            IN  IF json_start # -1 /\ json_end > json_start
                THEN IF ~JsonLoads(Slice(cleaned, json_start, json_end)).ok
                     THEN Raise("JSONDecodeError")
                     ELSE IF listed.json_type # "list" THEN Raise("TypeError")
                     ELSE IF \E i \in DOMAIN listed.items :
                                "json_type" \in DOMAIN listed.items[i]
                     THEN Raise("AttributeError")
                     ELSE Ok(ValidateQuestions(
                                 [i \in DOMAIN listed.items |->
                                     FormatQuestion(listed.items[i], i)]))
                ELSE ExtractQuestionsFromText(text)))

\* _extract_questions_with_llm(text)
ExtractQuestionsWithLlm(text, key, post) ==
    With(IF Len(text) > LlmTextLimit
         THEN SubSeq(text, 1, LlmTextLimit) \o Truncated ELSE text, LAMBDA sent :
        With(CallLlmApi(key, post).value, LAMBDA response :
            Catch(IF response.present /\ response.text # <<>>
                  THEN Catch(ParseLlmResponse(sent, response.text, post.data),
                             {"JSONDecodeError"}, ExtractQuestionsFromText(sent))
                  ELSE ExtractQuestionsFromText(sent),
                  ExceptionKinds, ExtractQuestionsFromText(sent))))

\* a text or a chunk is formatted and handed to the model when a key is
\* set, to the patterns when none is
ExtractFormatted(text, key, post) ==
    With(FormatAssessmentText(text), LAMBDA formatted :
        IF key THEN ExtractQuestionsWithLlm(formatted, key, post)
        ELSE ExtractQuestionsFromText(formatted))

\* a loop that puts the questions of each chunk in front of those of the
\* chunks before it
RECURSIVE ChunksFromReversed(_, _, _, _, _)
ChunksFromReversed(parts, i, key, posts, all) ==
    IF i > Len(parts) THEN Ok(all)
    ELSE With(Catch(ExtractFormatted(parts[i], key, posts[i]),
                    ExceptionKinds,
                    Catch(ExtractQuestionsFromText(parts[i]),
                          ExceptionKinds, Ok(<<>>))),
              LAMBDA result :
                  IF result.raised THEN result
                  ELSE With(result.value \o all, LAMBDA longer :
                           ChunksFromReversed(parts, i + 1, key, posts, longer)))

\* the loop of _process_in_chunks from chunk i on, all the results so far
RECURSIVE ChunksFrom(_, _, _, _, _)
ChunksFrom(parts, i, key, posts, all) ==
    IF i > Len(parts) THEN Ok(all)
    ELSE With(Catch(ExtractFormatted(parts[i], key, posts[i]),
                    ExceptionKinds,
                    Catch(ExtractQuestionsFromText(parts[i]),
                          ExceptionKinds, Ok(<<>>))),
              LAMBDA result :
                  IF result.raised THEN result
                  ELSE With(all \o result.value, LAMBDA longer :
                           ChunksFrom(parts, i + 1, key, posts, longer)))

\* the chunks _process_in_chunks works on
ChunksOf(text, size) == GroupIntoChunks(SplitByQuestions(text), size)

\* _process_in_chunks(text, chunk_size)
ProcessInChunks(text, size, key, posts) ==
    With(ChunksOf(text, size), LAMBDA parts :
        Catch(With(ChunksFrom(parts, 1, key, posts, <<>>), LAMBDA results :
                  IF results.raised THEN results
                  ELSE Ok(ValidateQuestions(results.value))),
              ExceptionKinds, Ok(<<>>)))

\* execute_from_text(text), the text followed by pad blanks
ExecuteFromText(text, pad, key, posts) ==
    Catch(IF Len(Strip(text)) < MinTextLength THEN Ok(<<>>)
          ELSE IF Len(text) + pad > ChunkThreshold
          THEN ProcessInChunks(text, ChunkSize, key, posts)
          ELSE With(ExtractFormatted(text, key, posts[1]), LAMBDA found :
                   IF found.raised THEN found
                   ELSE Ok(ValidateQuestions(found.value))),
          ExceptionKinds,
          Catch(ExtractQuestionsFromText(text), ExceptionKinds, Ok(<<>>)))

\* the calls of the external model that execute_from_text makes
CallsOf(text, pad, key) ==
    IF ~key \/ Len(Strip(text)) < MinTextLength THEN 0
    ELSE IF Len(text) + pad > ChunkThreshold THEN Len(ChunksOf(text, ChunkSize))
    ELSE 1

\* ---- inputs --------------------------------------------------------------
ProseReply ==
    <<"N", "o", " ", "q", "u", "e", "s", "t", "i", "o", "n", "s", " ", "f",
    "o", "u", "n", "d", ".">>

FencedReply ==
    <<Backquote, Backquote, Backquote, "j", "s", "o", "n", "\n", "{", "\"",
    "q", "u", "e", "s", "t", "i", "o", "n", "s", "\"", ":", " ", "[", "{",
    "\"", "i", "d", "\"", ":", " ", "\"", "Q", "7", "\"", ",", " ", "\"",
    "t", "e", "x", "t", "\"", ":", " ", "\"", "W", "h", "a", "t", " ", "i",
    "s", " ", "P", "P", "E", "?", "\"", ",", " ", "\"", "t", "y", "p", "e",
    "\"", ":", " ", "\"", "s", "h", "o", "r", "t", "_", "a", "n", "s", "w",
    "e", "r", "\"", "}", "]", "}", "\n", Backquote, Backquote, Backquote>>

BrokenReply ==
    <<"{", "\"", "q", "u", "e", "s", "t", "i", "o", "n", "s", "\"", ":", " ",
    "[", "}">>

NullReply ==
    <<"{", "\"", "q", "u", "e", "s", "t", "i", "o", "n", "s", "\"", ":", " ",
    "n", "u", "l", "l", "}">>

StringsReply ==
    <<"{", "\"", "q", "u", "e", "s", "t", "i", "o", "n", "s", "\"", ":", " ",
    "[", "\"", "Q", "1", "\"", "]", "}">>

NoKeyReply ==
    <<"{", "\"", "i", "t", "e", "m", "s", "\"", ":", " ", "[", "]", "}">>

NoIdReply ==
    <<"H", "e", "r", "e", ":", " ", "{", "\"", "q", "u", "e", "s", "t", "i",
    "o", "n", "s", "\"", ":", " ", "[", "{", "\"", "t", "e", "x", "t", "\"",
    ":", " ", "\"", "D", "e", "s", "c", "r", "i", "b", "e", " ", "h", "a",
    "n", "d", " ", "w", "a", "s", "h", "i", "n", "g", "\"", "}", ",", " ",
    "{", "\"", "t", "e", "x", "t", "\"", ":", " ", "\"", "\"", "}", "]", "}">>

ReversedReply ==
    <<"}", " ", "{">>

\* what requests.post does: it raises, answers with an error status, answers
\* without a candidate, or answers with a text (data: its JSON part decoded)
NoData == [questions |-> JsonNull]

Answer(text, data) ==
    [raises |-> FALSE, status_code |-> 200, has_text |-> TRUE,
     text |-> text, data |-> data]

PostInputs ==
    {[Answer(<<>>, NoData) EXCEPT !.raises = TRUE],
     [Answer(<<>>, NoData) EXCEPT !.status_code = 500],
     [Answer(<<>>, NoData) EXCEPT !.has_text = FALSE],
     Answer(ProseReply,
            NoData),
     Answer(FencedReply,
            [questions |-> JsonList(<<[id |-> <<"Q", "7">>, text |-> <<"W", "h", "a", "t", " ", "i", "s", " ", "P", "P", "E", "?">>, type |-> "short_answer"]>>)]),
     Answer(BrokenReply,
            NoData),
     Answer(NullReply,
            [questions |-> JsonNull]),
     Answer(StringsReply,
            [questions |-> JsonList(<<[json_type |-> "string"]>>)]),
     Answer(NoKeyReply,
            [items |-> JsonList(<<>>)]),
     Answer(NoIdReply,
            [questions |-> JsonList(<<[text |-> <<"D", "e", "s", "c", "r", "i", "b", "e", " ", "h", "a", "n", "d", " ", "w", "a", "s", "h", "i", "n", "g">>], [text |-> <<>>]>>)]),
     Answer(ReversedReply,
            NoData)}

\* the lines the texts are made of
ExtractLines ==
    {<<"1", ".", " ", "E", "x", "p", "l", "a", "i", "n", " ", "i", "n", "f",
     "e", "c", "t", "i", "o", "n", " ", "c", "o", "n", "t", "r", "o", "l",
     ".">>,
     <<"1", ".", "1", " ", "L", "i", "s", "t", " ", "t", "h", "r", "e", "e",
     " ", "h", "a", "n", "d", " ", "h", "y", "g", "i", "e", "n", "e", " ",
     "s", "t", "e", "p", "s">>,
     <<"2", ".", "1", " ", "W", "h", "a", "t", " ", "a", "r", "e", " ", "t",
     "h", "e", " ", "f", "i", "v", "e", " ", "m", "o", "m", "e", "n", "t",
     "s", " ", "o", "f", " ", "h", "a", "n", "d", " ", "h", "y", "g", "i",
     "e", "n", "e", "?">>,
     <<"A", ".", " ", "D", "e", "s", "c", "r", "i", "b", "e", " ", "t", "h",
     "e", " ", "c", "h", "a", "i", "n", " ", "o", "f", " ", "i", "n", "f",
     "e", "c", "t", "i", "o", "n">>,
     <<"Q", "u", "e", "s", "t", "i", "o", "n", " ", "3", ":", " ", "W", "h",
     "y", " ", "d", "o", " ", "w", "e", " ", "w", "a", "s", "h", " ", "h",
     "a", "n", "d", "s", "?">>,
     <<"a", ")", " ", "s", "o", "a", "p", " ", "a", "n", "d", " ", "w", "a",
     "t", "e", "r">>}

\* the most lines of a text
MaxTextLines == 2

\* the three-line text of the sub-question scenario
ScenarioText ==
    <<"1", ".", " ", "E", "x", "p", "l", "a", "i", "n", " ", "i", "n", "f",
    "e", "c", "t", "i", "o", "n", " ", "c", "o", "n", "t", "r", "o", "l",
    ".", "\n", "1", ".", "1", " ", "L", "i", "s", "t", " ", "t", "h", "r",
    "e", "e", " ", "h", "a", "n", "d", " ", "h", "y", "g", "i", "e", "n",
    "e", " ", "s", "t", "e", "p", "s", "\n", "1", ".", "2", " ", "D", "e",
    "m", "o", "n", "s", "t", "r", "a", "t", "e", " ", "c", "o", "r", "r",
    "e", "c", "t", " ", "g", "l", "o", "v", "e", " ", "r", "e", "m", "o",
    "v", "a", "l">>

\* a text of one line, a main-question heading that asks
HeadingText ==
    <<"4", ".", " ", "W", "h", "y", " ", "d", "o", " ", "w", "e", " ", "w",
    "e", "a", "r", " ", "g", "l", "o", "v", "e", "s", "?">>

\* the empty text, a text of blanks, the scenario, the heading and every text
\* of up to MaxTextLines lines
ExtractTexts ==
    {<<>>, <<" ", "\n", " ">>, ScenarioText, HeadingText}
    \cup {JoinLines(ls) : ls \in UNION {[1..n -> ExtractLines] : n \in 1..MaxTextLines}}

\* the blanks that take a text past the chunking threshold
LargePad == ChunkThreshold

InitExtract ==
    /\ input_text \in ExtractTexts
    /\ input_pad \in {0, LargePad}
    /\ extract_key \in BOOLEAN
    /\ entry_point \in {"execute_from_text", "_extract_questions_from_text"}
    /\ llm_posts = <<>>
    /\ extracted = Ok(<<>>)
    /\ extract_pc = "called"
    /\ IdleOutsideExtract

\* a call of execute_from_text, with what requests.post does at each call
RunExecuteFromText ==
    /\ extract_pc = "called"
    /\ entry_point = "execute_from_text"
    /\ \E posts \in [1..CallsOf(input_text, input_pad, extract_key) -> PostInputs] :
          /\ llm_posts' = posts
          /\ extracted' = ExecuteFromText(input_text, input_pad, extract_key, posts)
    /\ extract_pc' = "returned"
    /\ UNCHANGED <<input_text, input_pad, extract_key, entry_point,
                   varsOutsideExtract>>

\* a call of _extract_questions_from_text
RunExtractQuestionsFromText ==
    /\ extract_pc = "called"
    /\ entry_point = "_extract_questions_from_text"
    /\ extracted' = ExtractQuestionsFromText(input_text)
    /\ extract_pc' = "returned"
    /\ UNCHANGED <<input_text, input_pad, extract_key, entry_point, llm_posts,
                   varsOutsideExtract>>

NextExtract == RunExecuteFromText \/ RunExtractQuestionsFromText

(***************************************************************************)
(* ExtractAgent._process_in_chunks called on a text of several chunks      *)
(***************************************************************************)

\* ---- inputs --------------------------------------------------------------
MaxChunks == 3

\* the n-th numbered question of a text:  n. Why do we wash hands at step n?
ChunkLine(n) ==
    Decimal(n) \o <<".", " ", "W", "h", "y", " ", "d", "o", " ", "w", "e", " ",
                    "w", "a", "s", "h", " ", "h", "a", "n", "d", "s", " ", "a",
                    "t", " ", "s", "t", "e", "p", " ">> \o Decimal(n) \o <<"?">>

\* texts of one to MaxChunks numbered questions, each a chunk of its own under
\* SmallChunkSize
ChunkedTexts == {JoinLines([i \in 1..n |-> ChunkLine(i)]) : n \in 1..MaxChunks}

\* what requests.post does for one chunk: it raises, answers with an error
\* status, with prose, with a list of strings, with a list of question objects
ChunkPostInputs ==
    {post \in PostInputs :
        \/ post.raises
        \/ post.status_code # 200
        \/ post.has_text /\ post.text \in {ProseReply, StringsReply, FencedReply}}

InitChunked ==
    /\ input_text \in ChunkedTexts
    /\ input_pad = 0
    /\ extract_key \in BOOLEAN
    /\ entry_point = "_process_in_chunks"
    /\ llm_posts = <<>>
    /\ extracted = Ok(<<>>)
    /\ extract_pc = "called"
    /\ IdleOutsideExtract

\* a call of _process_in_chunks(text, chunk_size), with what requests.post
\* does for each chunk
RunProcessInChunks ==
    /\ extract_pc = "called"
    /\ entry_point = "_process_in_chunks"
    /\ \E posts \in [1..(IF extract_key
                          THEN Len(ChunksOf(input_text, SmallChunkSize))
                          ELSE 0) -> ChunkPostInputs] :
          /\ llm_posts' = posts
          /\ extracted' = ProcessInChunks(input_text, SmallChunkSize,
                                          extract_key, posts)
    /\ extract_pc' = "returned"
    /\ UNCHANGED <<input_text, input_pad, extract_key, entry_point,
                   varsOutsideExtract>>

NextChunked == RunProcessInChunks

(***************************************************************************)
(* ExtractAgent.execute: the extraction from a file                        *)
(***************************************************************************)

\* execute(file_path) for an existing .docx, .pdf or .doc file, text being the
\* text read from it
ExecuteFromFile(text, key, post) ==
    Catch(IF text = <<>> \/ Len(Strip(text)) < MinTextLength THEN Ok(<<>>)
          ELSE With(IF key THEN ExtractQuestionsWithLlm(text, key, post)
                    ELSE ExtractQuestionsFromText(text), LAMBDA found :
                   IF found.raised THEN found
                   ELSE Ok(ValidateQuestions(found.value))),
          ExceptionKinds, Ok(<<>>))

\* ---- inputs --------------------------------------------------------------
MaxHeadLines == 3

\* n blanks
Blanks(n) == [i \in 1..n |-> " "]

\* the texts of a file: one to MaxHeadLines numbered questions, a line of
\* blanks (one, a few, or more than the size budget of the model), and one
\* more numbered question
FileTexts ==
    {JoinLines([i \in 1..n |-> ChunkLine(i)]) \o <<"\n">> \o Blanks(gap)
        \o <<"\n">> \o ChunkLine(n + 1) :
        n \in 1..MaxHeadLines, gap \in {1, MinTextLength, LlmTextLimit}}

InitFile ==
    /\ input_text \in FileTexts
    /\ input_pad = 0
    /\ extract_key \in BOOLEAN
    /\ entry_point = "execute"
    /\ llm_posts = <<>>
    /\ extracted = Ok(<<>>)
    /\ extract_pc = "called"
    /\ IdleOutsideExtract

\* a call of execute, with what requests.post does if the model is called
RunExecute ==
    /\ extract_pc = "called"
    /\ entry_point = "execute"
    /\ \E posts \in [1..(IF extract_key THEN 1 ELSE 0) -> PostInputs] :
          /\ llm_posts' = posts
          /\ extracted' = ExecuteFromFile(input_text, extract_key,
                                          IF extract_key THEN posts[1]
                                          ELSE Answer(<<>>, NoData))
    /\ extract_pc' = "returned"
    /\ UNCHANGED <<input_text, input_pad, extract_key, entry_point,
                   varsOutsideExtract>>

NextFile == RunExecute

(***************************************************************************)
(* ExtractAgent._classify_question_type on texts of several phrases        *)
(***************************************************************************)

MaxPhrases == 3

\* the phrases of a text: an inline choice, an mcq keyword, a true/false
\* keyword, an explanation verb, a recall verb, an interrogative word, a
\* question mark, a scenario keyword, a demonstration verb, and a phrase no
\* rule looks for
PhraseInputs ==
    {<<"A", ".", " ", "s", "o", "a", "p">>,
     <<"S", "e", "l", "e", "c", "t">>,
     <<"t", "r", "u", "e">>,
     <<"D", "e", "s", "c", "r", "i", "b", "e">>,
     <<"l", "i", "s", "t">>,
     <<"w", "h", "y">>,
     <<"?">>,
     <<"s", "c", "e", "n", "a", "r", "i", "o">>,
     <<"p", "e", "r", "f", "o", "r", "m">>,
     <<"g", "l", "o", "v", "e", "s">>}

\* " ".join(parts)
RECURSIVE JoinWords(_)
JoinWords(parts) ==
    IF parts = <<>> THEN <<>>
    ELSE IF Len(parts) = 1 THEN parts[1]
    ELSE parts[1] \o <<" ">> \o JoinWords(Tail(parts))

ClassifyTexts ==
    {JoinWords(ps) : ps \in UNION {[1..n -> PhraseInputs] : n \in 1..MaxPhrases}}

InitClassify ==
    /\ input_text \in ClassifyTexts
    /\ input_pad = 0
    /\ extract_key = FALSE
    /\ entry_point = "_classify_question_type"
    /\ llm_posts = <<>>
    /\ extracted = Ok(<<>>)
    /\ extract_pc = "called"
    /\ IdleOutsideExtract

\* a call of _classify_question_type(question_text); the except branch is for
\* an argument that is no string
RunClassifyQuestionType ==
    /\ extract_pc = "called"
    /\ entry_point = "_classify_question_type"
    /\ extracted' = Ok(ClassifyQuestionType(input_text))
    /\ extract_pc' = "returned"
    /\ UNCHANGED <<input_text, input_pad, extract_key, entry_point, llm_posts,
                   varsOutsideExtract>>

NextClassify == RunClassifyQuestionType

(***************************************************************************)
(* The calls of the external service: MappingAgent._call_ai_api of         *)
(* agents/mapping_agent.py, the _call_ai_api of the second copy of the     *)
(* mapping agent, and ExtractAgent._call_llm_api                           *)
(***************************************************************************)

RECURSIVE Pow2(_)
Pow2(n) == IF n = 0 THEN 1 ELSE 2 * Pow2(n - 1)

\* what one post can end in: a reply with text, a reply without text, a
\* requests.exceptions.RequestException (network error, timeout, the HTTPError
\* of raise_for_status or a status other than 200), any other exception
PostOutcomes == {"text", "no_text", "transport_error", "other_error"}

\* what a call returns after a post that ended in outcome
ResultOf(outcome) ==
    [value |-> IF outcome = "text" THEN "text" ELSE None, cause |-> outcome]

\* if not self.api_key: return None
NoKeyResult == [value |-> None, cause |-> "no_key"]

\* the events of _call_llm_api: the post, with no sleep before it
LlmApiEvents(n) == <<[event |-> "post", question |-> n]>>

\* time.sleep(delay) of the except branch, delay = base_delay * (2 ** attempt)
Backoff(n, attempt) ==
    [event |-> "backoff", question |-> n, seconds |-> BaseDelay * Pow2(attempt)]

\* ---- inputs --------------------------------------------------------------
MaxCalls == 3

CallSites == {"mapping", "mapping_copy", "extraction"}

InitTransport ==
    /\ IdleOutsideTransport
    /\ call_site \in CallSites
    /\ call_key \in BOOLEAN
    /\ call_attempt = 0
    /\ call_events = <<>>
    /\ call_log = <<>>
    /\ call_result = NoReport
    /\ call_pc = "ready"
    /\ calls_made = 0

\* what a call that is over in one step does to the state
OneStepCall(events, result) ==
    /\ call_events' = events
    /\ call_log' = call_log \o events
    /\ call_result' = result
    /\ call_pc' = "returned"
    /\ calls_made' = calls_made + 1
    /\ UNCHANGED <<call_site, call_key, call_attempt, varsOutsideTransport>>

\* one call of _call_ai_api of agents/mapping_agent.py: the key check, the
\* sleep, one post, and the return of the text or of None
CallMappingService ==
    /\ call_site = "mapping"
    /\ call_pc \in {"ready", "returned"}
    /\ calls_made < MaxCalls
    /\ \E outcome \in PostOutcomes :
          IF call_key
          THEN OneStepCall(CallAiApi([id |-> calls_made + 1]), ResultOf(outcome))
          ELSE OneStepCall(<<>>, NoKeyResult)

\* one call of _call_llm_api: the key check, one post, the return
CallExtractionService ==
    /\ call_site = "extraction"
    /\ call_pc \in {"ready", "returned"}
    /\ calls_made < MaxCalls
    /\ \E outcome \in PostOutcomes :
          IF call_key
          THEN OneStepCall(LlmApiEvents(calls_made + 1), ResultOf(outcome))
          ELSE OneStepCall(<<>>, NoKeyResult)

\* one turn of the loop "for attempt in range(max_retries)" of the second copy
\* of _call_ai_api: the key check, the sleep, the post, and either the return
\* or the backoff sleep that precedes the next turn
CallRetryingAttempt ==
    /\ call_site = "mapping_copy"
    /\ \/ call_pc \in {"ready", "returned"} /\ calls_made < MaxCalls
       \/ call_pc = "retrying"
    /\ \E outcome \in PostOutcomes :
          LET attempt == IF call_pc = "retrying" THEN call_attempt ELSE 0
              before  == IF call_pc = "retrying" THEN call_events ELSE <<>>
              n       == calls_made + 1
              posted  == CallAiApi([id |-> n])
              retry   == /\ call_key
                         /\ outcome = "transport_error"
                         /\ attempt < MaxRetries - 1
              events  == IF ~call_key THEN <<>>
                         ELSE IF retry THEN Append(posted, Backoff(n, attempt))
                         ELSE posted
          IN  /\ call_events' = before \o events
              /\ call_log' = call_log \o events
              /\ call_attempt' = IF retry THEN attempt + 1 ELSE attempt
              /\ call_pc' = IF retry THEN "retrying" ELSE "returned"
              /\ call_result' = IF retry THEN call_result
                                ELSE IF call_key THEN ResultOf(outcome)
                                ELSE NoKeyResult
              /\ calls_made' = IF retry THEN calls_made ELSE calls_made + 1
    /\ UNCHANGED <<call_site, call_key, varsOutsideTransport>>

NextTransport == CallMappingService \/ CallExtractionService \/ CallRetryingAttempt

(***************************************************************************)
(* CollaborativeValidationAgent.analyze_coverage_quality                   *)
(***************************************************************************)

\* the thresholds of the analysis: an element with fewer questions than this
\* is under-covered; the targets for PEP items and for higher-order items, in
\* percent; the average confidence, in thousandths, below which a question is
\* listed as low-confidence
UnderCoveredBelow == 2
PepTargetPercent == 20
HigherOrderPercent == 10
LowConfidenceBelow == 600

UnknownElement == <<"U", "n", "k", "n", "o", "w", "n">>

\* the loop over mapping.get('mapping_analysis', {}).get('mapped_elements', [])
\* of all mappings: the element id, the score and the question of every item
RECURSIVE ElementRefs(_)
ElementRefs(ms) ==
    IF ms = <<>> THEN <<>>
    ELSE LET mapping == Head(ms)
             items   == Get(Get(mapping, "mapping_analysis", <<>>),
                            "mapped_elements", <<>>)
         IN  [i \in 1..Len(items) |->
                 [element_id  |-> Get(items[i], "element_id", UnknownElement),
                  score       |-> Get(items[i], "confidence_score", 0),
                  question_id |-> Get(mapping, "question_id", None)]]
             \o ElementRefs(Tail(ms))

\* the keys of element_coverage, in the order they were inserted
RECURSIVE KeysOf(_, _)
KeysOf(refs, seen) ==
    IF refs = <<>> THEN seen
    ELSE KeysOf(Tail(refs),
                IF \E i \in 1..Len(seen) : seen[i] = Head(refs).element_id
                THEN seen ELSE Append(seen, Head(refs).element_id))

\* element_coverage[element_id]: one count per item that names the element
ElementCoverage(refs, element_id) ==
    LET mine == SelectSeq(refs, LAMBDA r : r.element_id = element_id)
    IN  [count          |-> Len(mine),
         confidence_sum |-> SumSeq([i \in 1..Len(mine) |-> mine[i].score]),
         questions      |-> [i \in 1..Len(mine) |-> mine[i].question_id]]

\* the number of mappings whose field, read with its default, is among values
CountWhere(ms, Field(_), values) ==
    Len(SelectSeq(ms, LAMBDA m : Field(m) \in values))

MethodOf(mapping) == Get(mapping, "assessment_type", "KBA")

BloomOf(mapping) ==
    Get(Get(mapping, "bloom_taxonomy", <<>>), "primary_level", "UNDERSTAND")

\* the confidence scores of all mapped items of a mapping
ScoresOf(mapping) ==
    LET ma == Get(mapping, "mapping_analysis", <<>>)
        Of(k) == LET items == Get(ma, KindOrder[k], <<>>)
                 IN  [i \in 1..Len(items) |-> Get(items[i], "confidence_score", 0)]
    IN  Of(1) \o Of(2) \o Of(3) \o Of(4)

\* the question ids of the mappings that satisfy Test
QidsWhere(ms, Test(_)) ==
    LET hit == SelectSeq(ms, Test)
    IN  [i \in 1..Len(hit) |-> Get(hit[i], "question_id", None)]

\* a mapping with neither knowledge evidence nor performance evidence
MissingEvidence(mapping) ==
    LET ma == Get(mapping, "mapping_analysis", <<>>)
    IN  /\ Get(ma, "mapped_knowledge_evidence", <<>>) = <<>>
        /\ Get(ma, "mapped_performance_evidence", <<>>) = <<>>

\* scores and (sum(scores) / len(scores)) < 0.6
LowConfidence(mapping) ==
    LET scores == ScoresOf(mapping)
    IN  scores # <<>> /\ SumSeq(scores) < LowConfidenceBelow * Len(scores)

\* the remediation task for an under-covered element
ElementTask(element_id, coverage) ==
    [id                 |-> <<"remed_element_">> \o element_id,
     category           |-> "coverage",
     severity           |-> "moderate",
     impacted_elements  |-> <<element_id>>,
     impacted_questions |-> coverage.questions]

\* one of the four tasks that are not about a single element
GeneralTask(id, category, severity, keys, qids) ==
    [id |-> <<id>>, category |-> category, severity |-> severity,
     impacted_elements |-> keys, impacted_questions |-> qids]

\* analyze_coverage_quality(session_data): the element analysis, the moderate
\* issues and the remediation tasks of the report
AnalyzeCoverageQuality(ms, uoc) ==
    LET total   == Len(ms)
        refs    == ElementRefs(ms)
        keys    == KeysOf(refs, <<>>)
        under   == SelectSeq(keys, LAMBDA e :
                       ElementCoverage(refs, e).count < UnderCoveredBelow)
        pep     == CountWhere(ms, MethodOf, {"PEP"})
        higher  == CountWhere(ms, BloomOf, {"EVALUATE", "ANALYZE", "CREATE"})
        base    == IF total > 1 THEN total ELSE 1
        lower   == QidsWhere(ms, LAMBDA m :
                       BloomOf(m) \notin {"APPLY", "ANALYZE", "EVALUATE", "CREATE"})
        missing == QidsWhere(ms, MissingEvidence)
        low     == QidsWhere(ms, LowConfidence)
    IN  [total_questions   |-> total,
         element_analysis  |-> [i \in 1..Len(keys) |->
                                   [element_id |-> keys[i],
                                    coverage   |-> ElementCoverage(refs, keys[i])]],
         moderate_issues   |-> under,
         remediation_tasks |->
             [i \in 1..Len(under) |->
                 ElementTask(under[i], ElementCoverage(refs, under[i]))]
             \o (IF pep * 100 < PepTargetPercent * base
                 THEN <<GeneralTask("remed_method_pep", "assessment_method",
                                    "moderate", keys, lower)>>
                 ELSE <<>>)
             \o (IF higher * 100 < HigherOrderPercent * base
                 THEN <<GeneralTask("remed_bloom_higher", "cognitive_progression",
                                    "moderate", keys, lower)>>
                 ELSE <<>>)
             \o (IF missing # <<>>
                 THEN <<GeneralTask("remed_evidence_alignment", "evidence",
                                    "high", keys, missing)>>
                 ELSE <<>>)
             \o (IF low # <<>>
                 THEN <<GeneralTask("remed_low_confidence", "judgement_quality",
                                    "medium", keys, low)>>
                 ELSE <<>>)]

\* ---- inputs --------------------------------------------------------------
MaxSessionMappings == 2
MaxElementRefs == 2

\* the standard of the session: three Elements
SessionStandard == StandardOf(3, 1)

\* the element items of a mapping: the first Element with a high score, the
\* second with a low one; the third Element is mapped by no question
ElementRefInputs ==
    {[element_id |-> StandardCode("mapped_elements", 1), confidence_score |-> 900],
     [element_id |-> StandardCode("mapped_elements", 2), confidence_score |-> 500]}

KnowledgeItem ==
    [evidence_id |-> StandardCode("mapped_knowledge_evidence", 1),
     confidence_score |-> 900]

\* the method, the level and the evidence of a mapping
ProfileInputs ==
    {[assessment_type |-> "KBA", level |-> "UNDERSTAND", evidence |-> <<>>],
     [assessment_type |-> "PEP", level |-> "EVALUATE", evidence |-> <<KnowledgeItem>>],
     [assessment_type |-> "KBA", level |-> "APPLY", evidence |-> <<KnowledgeItem>>]}

SessionMapping(n, profile, items) ==
    [question_id      |-> <<"Q">> \o Decimal(n),
     assessment_type  |-> profile.assessment_type,
     bloom_taxonomy   |-> [primary_level |-> profile.level],
     mapping_analysis |-> [mapped_elements |-> items,
                           mapped_knowledge_evidence |-> profile.evidence]]

SessionMappingInputs ==
    UNION {{[i \in 1..n |-> SessionMapping(i, profiles[i], items[i])] :
               profiles \in [1..n -> ProfileInputs],
               items \in [1..n -> UNION {[1..k -> ElementRefInputs] :
                                            k \in 0..MaxElementRefs}]} :
           n \in 0..MaxSessionMappings}

InitQuality ==
    /\ IdleOutsideQuality
    /\ session_uoc = SessionStandard
    /\ session_mappings \in SessionMappingInputs
    /\ quality_report = NoReport
    /\ quality_pc = "called"

\* a call of analyze_coverage_quality(session_data)
RunAnalyzeCoverageQuality ==
    /\ quality_pc = "called"
    /\ quality_report' = AnalyzeCoverageQuality(session_mappings, session_uoc)
    /\ quality_pc' = "returned"
    /\ UNCHANGED <<session_uoc, session_mappings, varsOutsideQuality>>

NextQuality == RunAnalyzeCoverageQuality

(***************************************************************************)
(* Specifications                                                          *)
(***************************************************************************)

SpecClean == InitClean /\ [][NextClean]_vars

SpecCoverage == InitCoverage /\ [][NextCoverage]_vars

SpecExecute == InitExecute /\ [][NextExecute]_vars

SpecRepair == InitRepair /\ [][NextRepair]_vars

SpecChunk == InitChunk /\ [][NextChunk]_vars

SpecExtract == InitExtract /\ [][NextExtract]_vars

SpecTransport == InitTransport /\ [][NextTransport]_vars

SpecChunked == InitChunked /\ [][NextChunked]_vars

SpecQuality == InitQuality /\ [][NextQuality]_vars

SpecDegrade == InitDegrade /\ [][NextDegrade]_vars

SpecFile == InitFile /\ [][NextFile]_vars

SpecClassify == InitClassify /\ [][NextClassify]_vars

(***************************************************************************)
(* Claims about _clean_mapping_ids, checked under SpecClean                *)
(***************************************************************************)

\* the id fields an item of the reply carried, as cleaned by the first pass
CleanedIdOf(kind, f) == once_analysis[kind][1][f]

RawIdIs(kind, f, id) ==
    /\ Len(raw_analysis[kind]) = 1
    /\ f \in DOMAIN raw_analysis[kind][1]
    /\ raw_analysis[kind][1][f] = id

\* C3: component-code normalization is idempotent for every kind: a second
\* pass of _clean_mapping_ids changes nothing the first pass produced; an id
\* that is already canonical for its kind (E<n>, PC<n>.<m>, PE<n>, KE<n>) is
\* returned unchanged; "PCPC1.1" becomes "PC1.1" and "1.1" in a performance
\* criterion item becomes "PC1.1".
C3_NormalizationIdempotent ==
    /\ clean_passes = 2 => mapping_analysis = once_analysis
    /\ clean_passes >= 1 =>
          \A kind \in Kinds : \A f \in IdFieldsOf(kind) : \A id \in IdInputs :
              (RawIdIs(kind, f, id) /\ IsCanonical(id, kind))
                  => CleanedIdOf(kind, f) = id
    /\ clean_passes >= 1 =>
          \A id \in {<<"P", "C", "P", "C", "1", ".", "1">>, <<"1", ".", "1">>} :
              RawIdIs("mapped_performance_criteria", "criterion_id", id)
                  => CleanedIdOf("mapped_performance_criteria", "criterion_id")
                         = <<"P", "C", "1", ".", "1">>

\* a reply id with a duplicated prefix has been through two passes and the
\* first pass rewrote it
C3_Witness ==
    /\ clean_passes = 2
    /\ RawIdIs("mapped_performance_criteria", "criterion_id",
               <<"P", "C", "P", "C", "1", ".", "1">>)
    /\ mapping_analysis["mapped_performance_criteria"][1]["criterion_id"]
           = <<"P", "C", "1", ".", "1">>
    /\ once_analysis # raw_analysis

\* C18: after the normalization every component code of an item matches the
\* canonical grammar of its kind (E<n>, PC<n>.<m>, PE<n>, KE<n>), whatever
\* non-empty id string the reply held.
C18_CanonicalAfterClean ==
    clean_passes >= 1 =>
        \A kind \in Kinds : \A i \in 1..Len(mapping_analysis[kind]) :
            \A f \in IdFieldsOf(kind) \cap DOMAIN mapping_analysis[kind][i] :
                raw_analysis[kind][i][f] # <<>>
                    => IsCanonical(mapping_analysis[kind][i][f], kind)

(***************************************************************************)
(* Claims about _analyze_mapping_coverage, checked under SpecCoverage      *)
(***************************************************************************)

\* the latest analysis run saw exactly one new item since the run before, and
\* that item names a component of the standard that no item covered before
OneFreshItemAdded ==
    /\ last_delta.count = 1
    /\ last_delta.fresh
    /\ prev_percentage # NoReport

\* C5 (as stated): coverage monotonicity for any standard: when, between two
\* analysis runs, the Mapping set gained exactly one item whose code is a
\* component of the standard that no item covered before, the later run
\* reports a strictly higher coverage percentage for that component kind.
C5_CoverageMonotoneAnyStandard ==
    OneFreshItemAdded
        => coverage_analysis[CoverageKeyOf(last_delta.kind)].percentage
               > prev_percentage[last_delta.kind]

\* C5 (amended): the same, for a kind of at most 1000 components: the
\* percentage is rounded to one decimal, so one more covered component moves
\* it only while one component weighs at least a tenth of a percent.
C5_CoverageMonotone ==
    (/\ OneFreshItemAdded
     /\ coverage_analysis[CoverageKeyOf(last_delta.kind)].total <= FullCoverage)
        => coverage_analysis[CoverageKeyOf(last_delta.kind)].percentage
               > prev_percentage[last_delta.kind]

\* a second performance criterion became covered after a first one was, and
\* the analysis ran before and after
C5_Witness ==
    /\ OneFreshItemAdded
    /\ last_delta.kind = "mapped_performance_criteria"
    /\ coverage_analysis["performance_criteria_coverage"].total <= FullCoverage
    /\ prev_percentage["mapped_performance_criteria"] > 0
    /\ coverage_analysis["performance_criteria_coverage"].mapped = 2
    /\ coverage_analysis["performance_criteria_coverage"].total = 3

\* C8: for a standard with exactly 3 Elements and an empty Mapping sequence
\* the analysis reports elements_coverage.percentage = 0 and an
\* elements_coverage.unmapped list with exactly 3 entries, one per Element.
C8_ThreeElementsAllUnmapped ==
    (/\ coverage_analysis # NoReport
     /\ mappings = <<>>
     /\ Len(uoc_data["elements"]) = 3)
        => LET report == coverage_analysis["elements_coverage"]
           IN  /\ report.percentage = 0
               /\ Len(report.unmapped) = 3
               /\ {report.unmapped[i].id : i \in 1..Len(report.unmapped)}
                      = StandardCodes(uoc_data, "mapped_elements")

(***************************************************************************)
(* Claims about MappingAgent.execute, checked under SpecExecute            *)
(***************************************************************************)

\* the ids of the Questions posted to the external service, in order
PostedQuestions ==
    LET posts == SelectSeq(api_log, LAMBDA e : e.event = "post")
    IN  [i \in 1..Len(posts) |-> posts[i].question]

\* the latest external call failed, or its reply could not be repaired or parsed,
\* or the parsed reply fails validation
MappingFailed ==
    \/ api_response.status \in {"error", "no_text"}
    \/ api_response.status = "text" /\ api_response.clean # "object"
    \/ /\ api_response.status = "text" /\ api_response.clean = "object"
       /\ \/ "question_id" \notin DOMAIN api_response.data
          \/ "mapping_analysis" \notin DOMAIN api_response.data
          \/ \E kind \in Kinds :
                /\ kind \in DOMAIN api_response.data["mapping_analysis"]
                /\ api_response.data["mapping_analysis"][kind] = NotAList
          \/ "mapped_elements" \notin DOMAIN api_response.data["mapping_analysis"]

\* C10: under the fail-fast policy, once the mapping of one Question has failed
\* (the external call failed, the reply could not be repaired, or the reply
\* failed validation) execute has raised and returns nothing: the Mappings of
\* earlier Questions are not returned, and the Questions posted are exactly
\* those up to the failing one, none after it.
C10_FailFast ==
    /\ (MappingFailed \/ failed_at # 0) =>
          /\ exe_pc = "raised"
          /\ returned = NoReport
          /\ failed_at = q_index
          /\ PostedQuestions = [i \in 1..failed_at |-> questions[i].id]
    /\ exe_pc = "raised" => returned = NoReport
    /\ returned # NoReport => failed_at = 0

\* the second of three Questions failed on a transport error after the first
\* had been mapped
C10_Witness ==
    /\ exe_pc = "raised"
    /\ Len(questions) = 3
    /\ failed_at = 2
    /\ Len(exe_mappings) = 1
    /\ api_response.status = "error"
    /\ returned = NoReport

\* C11: whenever execute returns normally, the returned mappings list has
\* exactly one Mapping per input Question, the i-th Mapping being the one made
\* for the i-th Question (it carries that Question's text), and total_questions
\* equals the number of Mappings.
C11_OneMappingPerQuestion ==
    exe_pc = "returned" =>
        /\ Len(returned.mappings) = Len(questions)
        /\ \A i \in 1..Len(questions) :
              returned.mappings[i].question_text = questions[i].text
        /\ returned.total_questions = Len(returned.mappings)

\* execute has returned the Mappings of three Questions, one of them under a
\* question id the reply made up
C11_Witness ==
    /\ exe_pc = "returned"
    /\ Len(questions) = 3
    /\ Len(returned.mappings) = 3
    /\ returned.mappings[2].question_id = ForeignQuestionId
    /\ returned.mappings[3].question_text = questions[3].text

(***************************************************************************)
(* Claims about the repair of a reply, checked under SpecRepair            *)
(***************************************************************************)

\* Here you go: ```json {"a":1,} ```
ScenarioReply ==
    <<"H", "e", "r", "e", " ", "y", "o", "u", " ", "g", "o", ":", " ">>
    \o CodeFenceJson \o <<" ", "{", "\"", "a", "\"", ":", "1", ",", "}", " ">>
    \o CodeFence

\* C9: for the reply  Here you go: ```json {"a":1,} ```  (prose, a json code
\* fence, an object whose only defect is a trailing comma) the repair pipeline
\* returns text that parses to the object {"a": 1}, not the no-result value.
C9_TrailingCommaRepaired ==
    (reply_text = ScenarioReply /\ repair_pc # "received")
        => /\ cleaned_response.found
           /\ JsonLoads(cleaned_response.text)
                  = [ok |-> TRUE, value |-> <<"{", "\"", "a", "\"", ":", "1", "}">>]

\* C12: for every reply text the repair stage ends in one of two outcomes: the
\* no-result value, or a text that json.loads accepts and that parses as a
\* structured object; it never returns text that fails to parse.
C12_ObjectOrNoResult ==
    /\ repair_pc = "no_result" => cleaned_response = NoResult
    /\ repair_pc = "loaded" =>
          /\ cleaned_response.found
          /\ loaded_data.ok
          /\ loaded_data.value # <<>>
          /\ loaded_data.value[1] = "{"

(***************************************************************************)
(* Claims about question extraction, checked under SpecExtract             *)
(***************************************************************************)

\* the external model answered a call with a reply that cannot be used: the
\* request failed, or the reply holds no list of question objects
MalformedReply(post) ==
    \/ post.raises
    \/ post.text \in {BrokenReply, NullReply, StringsReply}

\* C1: for every text (empty, blank, shorter than the minimum length, or
\* without a question boundary), and whether the call of the external model
\* succeeds, fails or returns malformed text, execute_from_text and
\* _extract_questions_from_text return a list of Questions, possibly empty,
\* and no exception reaches the caller.
C1_NeverRaises ==
    extract_pc = "returned"
        => /\ ~extracted.raised
           /\ DOMAIN extracted.value = 1..Len(extracted.value)
           /\ \A i \in DOMAIN extracted.value :
                  {"id", "text"} \subseteq DOMAIN extracted.value[i]

\* C1 at work: execute_from_text has returned a list although the reply of
\* the external model held null in the place of the list of questions
C1_Witness ==
    /\ extract_pc = "returned"
    /\ entry_point = "execute_from_text"
    /\ Len(llm_posts) = 1
    /\ llm_posts[1].text = NullReply
    /\ ~extracted.raised
    /\ Len(extracted.value) > 0

\* line is a sub-question line "N.M text", as the extractor recognizes it
SubQuestionLine(line) ==
    SubMatch(line).matched /\ Len(SubMatch(line).text) > MinQuestionLength

\* the main question num is a line of its own in text
MainObserved(text, num) ==
    \E i \in DOMAIN SplitLines(text) :
        LET line == Strip(SplitLines(text)[i])
        IN  /\ MainMatch(line).matched
            /\ MainMatch(line).num = num
            /\ ~SubQuestionLine(line)

\* C2: in the sequence _extract_questions_from_text returns, every Question
\* with a parent_question has a Question with that id next to it, and for
\* every sub-question line of the text whose main question is no line of its
\* own a placeholder main question is present.
C2_ParentResolves ==
    (extract_pc = "returned" /\ entry_point = "_extract_questions_from_text")
        => LET result == extracted.value
               lines  == SplitLines(input_text)
           IN  /\ \A i \in DOMAIN result :
                      "parent_question" \in DOMAIN result[i]
                          => \E j \in DOMAIN result :
                                 result[j].id = result[i].parent_question
               /\ \A i \in DOMAIN lines :
                      LET line == Strip(lines[i])
                      IN  (SubQuestionLine(line)
                              /\ ~MainObserved(input_text, SubMatch(line).num))
                          => \E j \in DOMAIN result :
                                 /\ result[j].id = QId(SubMatch(line).num)
                                 /\ result[j].pattern_used = "main_question_placeholder"

\* C7: for the three-line text "1. Explain infection control." / "1.1 List
\* three hand hygiene steps" / "1.2 Demonstrate correct glove removal",
\* pattern-based extraction returns one main question numbered "1" and two
\* sub-questions, "1.1" of type short_answer and "1.2" of type practical.
C7_SubQuestionScenario ==
    (/\ extract_pc = "returned"
     /\ input_text = ScenarioText
     /\ entry_point = "_extract_questions_from_text")
        => LET result == extracted.value
               Numbered(num, type) ==
                   {i \in DOMAIN result :
                       /\ result[i].question_number = num
                       /\ type \in {"any", result[i].type}}
           IN  /\ Len(result) = 3
               /\ Cardinality(Numbered(<<"1">>, "any")) = 1
               /\ Cardinality(Numbered(<<"1", ".", "1">>, "short_answer")) = 1
               /\ Cardinality(Numbered(<<"1", ".", "2">>, "practical")) = 1

\* C21: every line "N.M text" whose text is longer than 10 characters is
\* emitted by pattern-based extraction as a Question numbered N.M with parent
\* main question N, and a main question N, a placeholder if N was never
\* opened, is in the output.
C21_SubQuestionEmitted ==
    (extract_pc = "returned" /\ entry_point = "_extract_questions_from_text")
        => LET result == extracted.value
               lines  == SplitLines(input_text)
           IN  \A i \in DOMAIN lines :
                   LET sub == SubMatch(Strip(lines[i]))
                   IN  SubQuestionLine(Strip(lines[i])) =>
                           /\ \E j \in DOMAIN result :
                                  /\ result[j].question_number
                                         = sub.num \o <<".">> \o sub.sub
                                  /\ "parent_question" \in DOMAIN result[j]
                                  /\ result[j].parent_question = QId(sub.num)
                           /\ \E k \in DOMAIN result : result[k].id = QId(sub.num)

\* line is a main-question heading "N. title" with a title longer than 5
\* characters, and no line of the sub-question form
HeadingLine(line) ==
    /\ MainMatch(line).matched
    /\ Len(MainMatch(line).text) > MinTitleLength
    /\ ~SubMatch(line).matched

\* C22: a line recognized as a main-question heading only opens a context: no
\* Question whose text is that line is in the result of
\* _extract_questions_from_text, the last-resort scan included.
C22_HeadingNotEmitted ==
    (extract_pc = "returned" /\ entry_point = "_extract_questions_from_text")
        => LET result == extracted.value
               lines  == SplitLines(input_text)
           IN  \A i \in DOMAIN lines :
                   HeadingLine(Strip(lines[i])) =>
                       \A j \in DOMAIN result : result[j].text # Strip(lines[i])

\* the fields every Question carries: id, text, question number, type,
\* choices, confidence and line reference
QuestionFields ==
    {"id", "text", "question_number", "type", "choices", "confidence",
     "line_number"}

\* C16: every Question that the extractor returns, whichever way it was
\* extracted (from the reply of the external model, by the patterns, by the
\* heuristic for potential questions, chunk by chunk, or after a failure), has
\* all of the fields id, text, question number, type, choices, confidence and
\* line reference.
C16_FieldsPresent ==
    extract_pc = "returned" =>
        /\ ~extracted.raised
        /\ \A i \in 1..Len(extracted.value) :
              QuestionFields \subseteq DOMAIN extracted.value[i]

\* execute_from_text returned, after a failed request, a Question the
\* heuristic found, which lacked one of the fields before the validation
C16_Witness ==
    /\ extract_pc = "returned"
    /\ entry_point = "execute_from_text"
    /\ extract_key
    /\ Len(llm_posts) = 1
    /\ llm_posts[1].raises
    /\ Len(extracted.value) >= 1
    /\ extracted.value[1].pattern_used = "question_detection"
    /\ LET found == ExtractPotentialQuestions(FormatAssessmentText(input_text))
       IN  /\ Len(found) >= 1
           /\ QuestionFields \ DOMAIN found[1] # {}
           /\ QuestionFields \subseteq DOMAIN extracted.value[1]

(***************************************************************************)
(* Claims about chunking, checked under SpecChunk                          *)
(***************************************************************************)

\* a line that opens a top-level question-number group: "N." at its start,
\* not followed by a further digit
OpensGroup(line) ==
    /\ DigitsDotAt(line, 1)
    /\ LET dot == CHOOSE j \in 1..Len(line) :
                     line[j] = "." /\ \A k \in 1..(j - 1) : line[k] # "."
       IN  dot = Len(line) \/ ~IsDigit(line[dot + 1])

\* the top-level question-number groups of a text, in order: each line that
\* opens a group, with the lines that follow it up to the next such line
GroupsOf(t) ==
    LET lines   == SplitLines(t)
        heads   == {i \in 1..Len(lines) : OpensGroup(lines[i])}
        last(h) == IF \E g \in heads : g > h
                   THEN (CHOOSE g \in heads : g > h /\ \A f \in heads : f > h => g <= f) - 1
                   ELSE Len(lines)
    IN  Pick([h \in 1..Len(lines) |-> Strip(JoinLines(SubSeq(lines, h, last(h))))],
             heads)

\* C4: splitting a text with _split_by_questions and packing the fragments
\* with _group_into_chunks yields chunks whose in-order concatenation holds
\* every top-level question-number group of the text exactly once: the groups
\* read off the concatenated chunks are the groups of the text, none dropped,
\* duplicated or cut in two.
C4_ChunkRoundTrip ==
    chunk_pc = "grouped" => GroupsOf(JoinLines(chunks)) = GroupsOf(chunk_text)

(***************************************************************************)
(* Claims about the external calls, checked under SpecTransport            *)
(***************************************************************************)

\* the events of one kind among the events of the latest call
EventsOfCall(kind) == SelectSeq(call_events, LAMBDA e : e.event = kind)

\* C13: when a call has surfaced a failure that stems from a transient
\* transport error, the post was retried before: the call made more than one
\* post, with a backoff delay between two posts, each delay twice the one
\* before, and the failure came only after the last attempt.
C13_RetriedBeforeFailure ==
    (call_pc = "returned" /\ call_result.cause = "transport_error") =>
        LET posts    == EventsOfCall("post")
            backoffs == EventsOfCall("backoff")
        IN  /\ Len(posts) >= 2
            /\ Len(backoffs) = Len(posts) - 1
            /\ \A i \in 1..(Len(backoffs) - 1) :
                  backoffs[i + 1].seconds = 2 * backoffs[i].seconds

\* C14: every post to the external service, of the extraction stage as well as
\* of the mapping stage, comes immediately after the rate-limit sleep of the
\* same call.
C14_DelayBeforeEveryPost ==
    \A i \in 1..Len(call_log) :
        call_log[i].event = "post" =>
            /\ i > 1
            /\ call_log[i - 1].event = "sleep"
            /\ call_log[i - 1].question = call_log[i].question

(***************************************************************************)
(* Claims about chunked processing, checked under SpecChunked              *)
(***************************************************************************)

\* the call of the external model for a chunk failed: the request raised or
\* came back with an error status, or the reply holds no list of question
\* objects
ChunkFailed(post) ==
    \/ post.raises
    \/ post.status_code # 200
    \/ post.text \in {ProseReply, StringsReply}

\* what a chunk gives by itself: pattern-only extraction when the call of the
\* external model for it failed or no key is set, the questions of its reply
\* otherwise; validated
QuestionsOfChunk(part, key, post) ==
    ValidateQuestions(
        IF ~key \/ ChunkFailed(post)
        THEN ExtractQuestionsFromText(FormatAssessmentText(part)).value
        ELSE ExtractFormatted(part, key, post).value)

RECURSIVE InChunkOrder(_, _, _, _)
InChunkOrder(parts, key, posts, i) ==
    IF i > Len(parts) THEN <<>>
    ELSE QuestionsOfChunk(parts[i], key, posts[i])
             \o InChunkOrder(parts, key, posts, i + 1)

\* C15: in chunked processing a failure while extracting one chunk affects
\* only that chunk, which falls back to pattern-only extraction: nothing is
\* raised, every other chunk is still processed, and the result is made of
\* what each chunk gives by itself, in chunk order.
C15_ChunkFailureIsolated ==
    (extract_pc = "returned" /\ entry_point = "_process_in_chunks") =>
        /\ ~extracted.raised
        /\ extracted.value =
              InChunkOrder(ChunksOf(input_text, SmallChunkSize), extract_key,
                           llm_posts, 1)

\* the request of the second of three chunks raised; the questions of the
\* replies for the first and the third chunk stand around those the patterns
\* found in the second
C15_Witness ==
    /\ extract_pc = "returned"
    /\ entry_point = "_process_in_chunks"
    /\ extract_key
    /\ Len(llm_posts) = 3
    /\ llm_posts[2].raises
    /\ llm_posts[1].text = FencedReply
    /\ llm_posts[3].text = FencedReply
    /\ Len(extracted.value) >= 3
    /\ extracted.value[1].pattern_used = "llm_extraction"
    /\ extracted.value[2].pattern_used # "llm_extraction"
    /\ extracted.value[Len(extracted.value)].pattern_used = "llm_extraction"

\* C17: in the Question sequence the extractor returns for a text of several
\* chunks, no two Questions have the same id.
C17_IdsUnique ==
    extract_pc = "returned" =>
        \A i, j \in 1..Len(extracted.value) :
            i # j => extracted.value[i].id # extracted.value[j].id

(***************************************************************************)
(* Claims about analyze_coverage_quality, checked under SpecQuality        *)
(***************************************************************************)

\* the number of questions of the Mapping set attributed to an element
AttributedQuestions(element_id) ==
    Cardinality({i \in 1..Len(session_mappings) :
        \E k \in 1..Len(session_mappings[i].mapping_analysis.mapped_elements) :
            session_mappings[i].mapping_analysis.mapped_elements[k].element_id
                = element_id})

\* C19: for every Element of the standard with fewer than 2 attributed
\* questions in the Mapping set, those with no question included, the report
\* of analyze_coverage_quality holds a remediation task of moderate severity
\* that names that Element.
C19_TaskForEveryUnderCovered ==
    quality_pc = "returned" =>
        \A element_id \in StandardCodes(session_uoc, "mapped_elements") :
            AttributedQuestions(element_id) < UnderCoveredBelow =>
                \E t \in 1..Len(quality_report.remediation_tasks) :
                    /\ quality_report.remediation_tasks[t].severity = "moderate"
                    /\ quality_report.remediation_tasks[t].impacted_elements
                           = <<element_id>>

(***************************************************************************)
(* Claims about the variant that does not abort, checked under SpecDegrade *)
(***************************************************************************)

\* C20: the batch the variant returns has exactly one Mapping per input
\* Question, in the order of the Questions: a Question whose external mapping
\* failed is represented by a placeholder Mapping carrying its id.
C20_PlaceholderForEveryFailure ==
    exe_pc = "returned" =>
        /\ Len(returned.mappings) = Len(questions)
        /\ \A i \in 1..Len(questions) :
              (api_key /\ failed_at = i) =>
                  returned.mappings[i].question_id = questions[i].id

(***************************************************************************)
(* Claims about the finishing of a Mapping, checked under SpecExecute      *)
(***************************************************************************)

\* the latest turn of the loop parsed a reply and appended its Mapping
LatestAppended ==
    /\ q_index > 0
    /\ Len(exe_mappings) = q_index
    /\ api_response.clean = "object"

\* the Mapping the latest turn appended, and the analysis of its reply
LatestMapping == exe_mappings[q_index]

LatestRawAnalysis == api_response.data["mapping_analysis"]

\* C25: a parsed reply is accepted as a Mapping only if its mapping analysis
\* holds all four mapped-item lists; a reply that lacks one of them is a
\* mapping failure and yields no Mapping.
C25_FourListsRequired ==
    (/\ q_index > 0
     /\ api_response.clean = "object"
     /\ "mapping_analysis" \in DOMAIN api_response.data
     /\ \E kind \in Kinds : kind \notin DOMAIN LatestRawAnalysis)
        => /\ failed_at = q_index
           /\ Len(exe_mappings) < q_index

\* an item of a reply that has an id or a description
HasIdOrDescription(item, kind) ==
    \/ Get(item, MappedIdFieldOf(kind), <<>>) # <<>>
    \/ Get(item, DescriptionFieldOf(kind), <<>>) # <<>>

\* C26: when a Mapping is finished, an item is dropped from its list if and
\* only if it lacks both an id and a description: of every list exactly the
\* items with an id or a description are kept.
C26_DroppedOnlyIfBothMissing ==
    LatestAppended =>
        \A kind \in Kinds :
            Len(LatestMapping.mapping_analysis[kind])
                = Len(SelectSeq(Get(LatestRawAnalysis, kind, <<>>),
                                LAMBDA item : HasIdOrDescription(item, kind)))

\* the items of the four lists of a Mapping, in the order of the lists
ItemsOf(mapping) ==
    mapping.mapping_analysis[KindOrder[1]] \o mapping.mapping_analysis[KindOrder[2]]
    \o mapping.mapping_analysis[KindOrder[3]] \o mapping.mapping_analysis[KindOrder[4]]

\* C27: in every Mapping of the mapping stage the statistics agree with the
\* final content: total_mappings is the number of items of the four lists and
\* average_confidence the mean confidence of exactly those items, also when
\* items were dropped as empty.
C27_StatisticsMatchContent ==
    \A m \in 1..Len(exe_mappings) :
        LET items  == ItemsOf(exe_mappings[m])
            scores == [i \in 1..Len(items) |-> Get(items[i], "confidence_score", 0)]
        IN  /\ exe_mappings[m].mapping_statistics.total_mappings = Len(items)
            /\ exe_mappings[m].mapping_statistics.average_confidence
                   = IF Len(items) > 0 THEN RoundDiv(SumSeq(scores), Len(items))
                     ELSE 0

\* C30: the question_id of the i-th returned Mapping is the id of the i-th
\* input Question, whatever question_id the reply contained.
C30_MappingCarriesQuestionId ==
    exe_pc = "returned" =>
        \A i \in 1..Len(returned.mappings) :
            returned.mappings[i].question_id = questions[i].id

(***************************************************************************)
(* A claim about the bounds of the coverage report, under SpecCoverage     *)
(***************************************************************************)

\* C28: for every component kind, every standard and every Mapping set, with
\* Mappings that carry codes the standard lacks or items without an id, the
\* coverage report satisfies 0 <= mapped <= total, percentage <= 100, and
\* mapped plus the number of unmapped entries equals total.
C28_ReportWithinBounds ==
    coverage_analysis # NoReport =>
        \A kind \in Kinds :
            LET report == coverage_analysis[CoverageKeyOf(kind)]
            IN  /\ 0 <= report.mapped
                /\ report.mapped <= report.total
                /\ report.percentage <= FullCoverage
                /\ report.mapped + Len(report.unmapped) = report.total

(***************************************************************************)
(* A claim about the cap of a chunk, checked under SpecChunk               *)
(***************************************************************************)

\* C24: every chunk of _group_into_chunks that holds two or more fragments has
\* length at most max_size, the joining separators included; a chunk longer
\* than the cap is a single fragment, kept whole.
C24_ChunkWithinCap ==
    chunk_pc = "grouped" =>
        \A c \in 1..Len(chunks) :
            Len(chunks[c]) > chunk_size =>
                \E i \in 1..Len(question_groups) : chunks[c] = question_groups[i]

(***************************************************************************)
(* A claim about the text of the fallback, checked under SpecFile          *)
(***************************************************************************)

\* the call of the model came back with nothing: the transport failed, the
\* status was not 200, or the answer carried no text
LlmCallFailed ==
    /\ extract_key
    /\ Len(llm_posts) = 1
    /\ \/ llm_posts[1].raises
       \/ llm_posts[1].status_code # 200
       \/ ~llm_posts[1].has_text

\* C29: when the extraction by the model fails and the extractor degrades to
\* the patterns, the patterns run on the complete text handed to the
\* extractor: the result is what pattern-based extraction finds in that text,
\* a question beyond the size budget of the model included.
C29_FallbackOnCompleteText ==
    (extract_pc = "returned" /\ entry_point = "execute" /\ LlmCallFailed) =>
        /\ ~extracted.raised
        /\ extracted.value
               = ValidateQuestions(ExtractQuestionsFromText(input_text).value)

(***************************************************************************)
(* A claim about the classification, checked under SpecClassify            *)
(***************************************************************************)

\* the types of the rules, in the order of their priority
RuleTypes ==
    <<"mcq", "mcq", "true_false", "essay", "short_answer", "short_answer",
      "scenario", "practical", "question">>

\* the condition of the k-th rule holds for the text
RuleHolds(k, question_text) ==
    LET lower == Lower(question_text)
        asks  == \E i \in 1..Len(question_text) : question_text[i] = "?"
    IN  CASE k = 1 -> HasChoicePattern(question_text)
          [] k = 2 -> ContainsAny(lower, McqWords)
          [] k = 3 -> ContainsAny(lower, TrueFalseWords)
          [] k = 4 -> ContainsAny(lower, EssayWords)
          [] k = 5 -> ContainsAny(lower, ShortAnswerWords)
          [] k = 6 -> ContainsAny(lower, QuestionWords) /\ asks
          [] k = 7 -> ContainsAny(lower, ScenarioWords)
          [] k = 8 -> ContainsAny(lower, PracticalWords)
          [] k = 9 -> asks

\* C23: classification is first-match-wins over the fixed order of the rules:
\* the type returned is that of the first rule whose condition holds for the
\* text, and unknown when no rule holds.
C23_FirstMatchWins ==
    (extract_pc = "returned" /\ entry_point = "_classify_question_type") =>
        LET holds == {k \in 1..Len(RuleTypes) : RuleHolds(k, input_text)}
        IN  extracted.value
                = IF holds = {} THEN "unknown"
                  ELSE RuleTypes[CHOOSE k \in holds : \A j \in holds : k <= j]

\* a text with a recall verb before an explanation verb, a question mark and a
\* demonstration verb was classified: several rules hold, the earliest is essay
C23_Witness ==
    /\ extract_pc = "returned"
    /\ entry_point = "_classify_question_type"
    /\ RuleHolds(4, input_text)
    /\ RuleHolds(5, input_text)
    /\ RuleHolds(8, input_text)
    /\ \A k \in 1..3 : ~RuleHolds(k, input_text)
    /\ extracted.value = "essay"

====
